---- MODULE Spec2Model ----
(***************************************************************************)
(* Monitoring-and-processing pipeline of AnalisadorDeDocumentos.           *)
(*                                                                         *)
(*   Spec        the monitoring cycle verificar_e_atualizar (screnshot.py) *)
(*               run by its three triggers: the monitoring worker and the  *)
(*               operator's 'test' command (integracao.py) and the bot's   *)
(*               /lastreport command (bot.py)                              *)
(*   SpecNotify  the notification check periodic_check (bot.py)            *)
(*   SpecRetry   the retry executor retry_with_backoff                     *)
(*   SpecCache   the fingerprint cache with the processors (AgenteResumo)  *)
(*   SpecProcessador  one processor applied to one document                *)
(*   SpecTrimestre    processar_trimestre_completo and the consolidation   *)
(*   SpecBaixar  the download loop of baixar_e_salvar_pdf (screnshot.py)   *)
(*   SpecArranque     IntegratedSystem.run (integracao.py)                 *)
(*   SpecSplit   split_message applied to one text (bot.py)                *)
(*   SpecParada  the running system and its bot up to stop (integracao.py) *)
(*   SpecEscrita write_json and read_json on one file (bot.py)             *)
(*                                                                         *)
(* Strings the code indexes (the quarter label) are tuples of one-char     *)
(* strings.  Delays are counted in half seconds, so that 0.5 s is 1.       *)
(***************************************************************************)
EXTENDS Integers, Sequences, FiniteSets, TLC

VARIABLES
    \* ---- screnshot.py: persisted state and the running cycles
    ultimo,          \* content of ultimo_trimestre.txt (<<>> when absent)
    agenteDisponivel,\* AGENTE_RESUMO_DISPONIVEL
    pc,              \* per trigger: position inside verificar_e_atualizar
    detectado,       \* per trigger: trimestre_detectado
    ultimoLido,      \* per trigger: ultimo_trimestre as loaded by the cycle
    arquivos,        \* per trigger: kinds in arquivos_baixados
    retorno,         \* per trigger: what verificar_e_atualizar gave its caller
    fez,             \* per trigger: stages the current cycle has performed
    detFalhou,       \* per trigger: detection raised in the current cycle
    ciclos,          \* cycles started so far
    procCount,       \* per label: executions of processar_trimestre_completo
    \* ---- bot.py: notification ledger and fan-out
    resultados,      \* file names in resultados_analises/
    lastSent,        \* "filename" of last_sent.json (NENHUM when absent)
    subscribers,     \* subscribers.json, a list of chat ids
    bpc,             \* position inside periodic_check
    notif,           \* notification_data of the running check
    subs,            \* the registry as read at the start of fan-out
    idx,             \* index in subs of the subscriber being served
    passo,           \* next send for that subscriber
    tentados,        \* subscribers with a delivery attempt in this check
    falharam,        \* subscribers whose delivery raised in this check
    sucessos,        \* success_count
    fanouts,         \* per artifact: checks that made a delivery of it
    falhouEntrega,   \* artifact whose last fan-out had a failed delivery
    checks,          \* notification checks started so far
    \* ---- retry_with_backoff
    rpc,             \* position inside wrapper
    cfg,             \* RetryConfig
    sucessoEm,       \* the call of func that first succeeds (0: none)
    classe,          \* the class of the exception func raises when it fails
    attempt,         \* loop variable
    delay,           \* current delay
    lastException,   \* last_exception: the call that raised it (0: None)
    chamadas,        \* calls of func so far
    esperas,         \* the waits performed, in order
    resultado,       \* what wrapper gave its caller
    \* ---- AgenteResumo.py: the cache and the processors
    mtime,           \* per document: st_mtime of the file (0: no file)
    cacheDir,        \* .cache_processamentos/: the files, hash and result
    processados,     \* hashes under which a summary was produced
    ultima,          \* the last call of a processor and what it gave
    passagens,       \* calls of a processor so far
    \* ---- one processor applied to one document
    entrada,         \* kind and content of the document, answer of the model
    saida,           \* what the processor did with it
    \* ---- AgenteResumo.py: processar_trimestre_completo
    pasta,           \* the files of the folder: name, empty or readable
    tpc,             \* position inside processar_trimestre_completo
    fila,            \* the calls of the processors still to make
    arquivosProcessados, \* resultados['arquivos_processados']
    resumosSucesso,  \* resumos_sucesso
    resumoExecutivo, \* resultados['resumo_executivo'] (Nulo: None)
    llmTentativas,   \* calls of llm.invoke made by _chamar_llm
    llmLen,          \* length of the answer _chamar_llm returned (-1: none)
    persistido,      \* the record written to resultados_analises/
    \* ---- screnshot.py: the download loop of baixar_e_salvar_pdf
    destino,         \* pasta_destino: the files, kind and size
    dpc,             \* position inside baixar_e_salvar_pdf
    tipoIdx,         \* the kind of tipos_arquivo the loop is at
    tentativas,      \* per kind served: the page, the GETs, the outcome
    arquivosBaixados,\* arquivos_baixados
    \* ---- integracao.py: IntegratedSystem.run
    ambiente,        \* the environment variables of the credentials
    ficheiros,       \* the required files that exist
    spc,             \* position inside run
    botProcess,      \* self.bot_process: None, running or ended
    botInicios,      \* calls of subprocess.Popen made by start_bot
    monitoringThread,\* self.monitoring_thread is started
    running,         \* self.running
    worker,          \* position of the thread inside monitoring_worker
    botsVivos,       \* bot child processes that are alive
    botTentativa,    \* failed attempts of the running call of start_bot
    \* ---- bot.py: write_json and read_json
    disco,           \* the text of the file, token by token
    escritor,        \* the running call of write_json
    leitura          \* what the last read_json gave

pipeVars == <<ultimo, agenteDisponivel, pc, detectado, ultimoLido, arquivos,
              retorno, fez, detFalhou, ciclos, procCount>>
botVars == <<resultados, lastSent, subscribers, bpc, notif, subs, idx, passo,
             tentados, falharam, sucessos, fanouts, falhouEntrega,
             checks>>
retryVars == <<rpc, cfg, sucessoEm, classe, attempt, delay, lastException,
               chamadas, esperas, resultado>>
procVars == <<mtime, cacheDir, processados, ultima, passagens>>
textoVars == <<entrada, saida>>
triVars == <<pasta, tpc, fila, arquivosProcessados, resumosSucesso,
             resumoExecutivo, llmTentativas, llmLen, persistido>>
baixarVars == <<destino, dpc, tipoIdx, tentativas, arquivosBaixados>>
arranqueVars == <<ambiente, ficheiros, spc, botProcess, botInicios,
                  monitoringThread, running, worker, botsVivos,
                  botTentativa>>
escritaVars == <<disco, escritor, leitura>>
vars == <<pipeVars, botVars, retryVars, procVars, textoVars, triVars,
          baixarVars, arranqueVars, escritaVars>>

----------------------------------------------------------------------------
(* Bounds of the model *)

MaxCiclos == 2

----------------------------------------------------------------------------
(* screnshot.py *)

\* Quarter labels the classification service may answer with.
T4T25 == <<"4", "T", "2", "5">>
T1T26 == <<"1", "T", "2", "6">>
T2T2025 == <<"2", "T", "2", "0", "2", "5">>
TAsterisco == <<"*", "2", "T", "2", "5">>
Vazio == <<>>

Respostas == {Vazio, T4T25, T1T26, T2T2025, TAsterisco}
Rotulos == Respostas \ {Vazio}

Digitos == {"0", "1", "2", "3", "4", "5", "6", "7", "8", "9"}

\* The form the prompt asks for: quarter digit, 'T', two year digits.
BemFormado(t) ==
    /\ Len(t) = 4
    /\ t[1] \in {"1", "2", "3", "4"}
    /\ t[2] = "T"
    /\ t[3] \in Digitos
    /\ t[4] \in Digitos

Tipos == {"release_resultados", "demonstracoes_financeiras", "transcricao"}

\* The triggers of a cycle and the process each runs in.
Gatilhos == {"worker", "test", "lastreport"}
Processo(g) == IF g = "lastreport" THEN "bot" ELSE "integracao"

\* The gate without the comparison with the persisted marker.
GateSemComparacao(ult, det) == det # Vazio

\* verificar_e_atualizar, the gate of line 364.
GatePasses(ult, det) == ult # det /\ det # Vazio

\* baixar_e_salvar_pdf, lines 49-55: trimestre_detectado[0] raises IndexError
\* on the empty string only; the slice [2:] never raises.
ExtraiTrimestre(t) ==
    IF Len(t) = 0
    THEN [ok |-> FALSE, num |-> "", ano |-> <<>>]
    ELSE [ok |-> TRUE, num |-> t[1],
          ano |-> <<"2", "0">> \o SubSeq(t, 3, Len(t))]

\* baixar_e_salvar_pdf, lines 105-106: int(trimestre_num) + 1 is the column
\* of the table; the table has the columns 2..5 of the four quarters.
ColunaExiste(num) == num \in {"1", "2", "3", "4"}

\* The sets of kinds a fetch of label t may end with in arquivos_baixados:
\* each kind whose link resolves and whose download is non-empty.
PodeBaixar(t) ==
    LET e == ExtraiTrimestre(t)
    IN  IF e.ok /\ ColunaExiste(e.num) THEN SUBSET Tipos ELSE {{}}

\* The cycle without the except of line 376: the exception reaches the caller.
AposDeteccaoSemExcept(raised, ult, det) ==
    IF raised
    THEN [pc |-> "returned", retorno |-> "raise"]
    ELSE IF ult # det /\ det # Vazio
         THEN [pc |-> "fetching", retorno |-> "nenhum"]
         ELSE [pc |-> "returned", retorno |-> "nenhuma_atualizacao"]

\* verificar_e_atualizar, lines 334-378: where the cycle goes once detection
\* has raised or answered.
AposDeteccao(raised, ult, det) ==
    IF raised
    THEN [pc |-> "returned", retorno |-> "erro"]
    ELSE IF GatePasses(ult, det)
         THEN [pc |-> "fetching", retorno |-> "nenhum"]
         ELSE [pc |-> "returned", retorno |-> "nenhuma_atualizacao"]

LocalInicial ==
    /\ pc = [g \in Gatilhos |-> "idle"]
    /\ detectado = [g \in Gatilhos |-> Vazio]
    /\ ultimoLido = [g \in Gatilhos |-> Vazio]
    /\ arquivos = [g \in Gatilhos |-> {}]
    /\ retorno = [g \in Gatilhos |-> "nenhum"]
    /\ fez = [g \in Gatilhos |-> {}]
    /\ detFalhou = [g \in Gatilhos |-> FALSE]

PipeInit ==
    /\ ultimo = Vazio
    /\ agenteDisponivel \in BOOLEAN
    /\ LocalInicial
    /\ ciclos = 0
    /\ procCount = [t \in Rotulos |-> 0]

\* A trigger calls verificar_e_atualizar: capturar_screenshot and agent.run
\* are in flight.
Iniciar(g) ==
    /\ UNCHANGED <<botVars, retryVars, procVars, textoVars, triVars,
                   baixarVars, arranqueVars,
                   escritaVars>>
    /\ pc[g] = "idle"
    /\ ciclos < MaxCiclos
    /\ ciclos' = ciclos + 1
    /\ pc' = [pc EXCEPT ![g] = "detecting"]
    /\ UNCHANGED <<ultimo, agenteDisponivel, detectado, ultimoLido, arquivos,
                   retorno, fez, detFalhou, procCount>>

\* Lines 335-374: detection answers (or raises), the marker is loaded and the
\* gate is evaluated.
Detectar(g) ==
    /\ UNCHANGED <<botVars, retryVars, procVars, textoVars, triVars,
                   baixarVars, arranqueVars,
                   escritaVars>>
    /\ pc[g] = "detecting"
    /\ \E raised \in BOOLEAN, resposta \in Respostas :
         LET det == IF raised THEN Vazio ELSE resposta
             ult == IF raised THEN Vazio ELSE ultimo
             a == AposDeteccao(raised, ult, det)
         IN  /\ raised => resposta = Vazio
             /\ detFalhou' = [detFalhou EXCEPT ![g] = raised]
             /\ detectado' = [detectado EXCEPT ![g] = det]
             /\ ultimoLido' = [ultimoLido EXCEPT ![g] = ult]
             /\ pc' = [pc EXCEPT ![g] = a.pc]
             /\ retorno' = [retorno EXCEPT ![g] = a.retorno]
    /\ UNCHANGED <<ultimo, agenteDisponivel, arquivos, fez, ciclos,
                   procCount>>

\* baixar_e_salvar_pdf, lines 46-143 and 171-173: the links are resolved and
\* downloaded; geral is the failure of the browser session (line 137).
Baixar(g) ==
    /\ UNCHANGED <<botVars, retryVars, procVars, textoVars, triVars,
                   baixarVars, arranqueVars,
                   escritaVars>>
    /\ pc[g] = "fetching"
    /\ \E geral \in BOOLEAN, baixados \in PodeBaixar(detectado[g]) :
         /\ geral => baixados = {}
         /\ fez' = [fez EXCEPT ![g] = @ \cup {"fetch"}]
         /\ arquivos' = [arquivos EXCEPT ![g] = baixados]
         /\ IF baixados = {}
            THEN /\ pc' = [pc EXCEPT ![g] = "returned"]
                 /\ retorno' = [retorno EXCEPT ![g] = "problemas_download"]
            ELSE /\ pc' = [pc EXCEPT ![g] = "fetched"]
                 /\ UNCHANGED retorno
    /\ UNCHANGED <<ultimo, agenteDisponivel, detectado, ultimoLido, detFalhou,
                   ciclos, procCount>>

\* baixar_e_salvar_pdf, lines 146-151 and 170, with salvar_no_banco_dados:
\* the marker is written (the write may fail, line 285).  Nothing reads
\* arquivos_baixados after this but the log.
Salvar(g) ==
    /\ UNCHANGED <<botVars, retryVars, procVars, textoVars, triVars,
                   baixarVars, arranqueVars,
                   escritaVars>>
    /\ pc[g] = "fetched"
    /\ \E escreveu \in BOOLEAN :
         ultimo' = IF escreveu THEN detectado[g] ELSE ultimo
    /\ fez' = [fez EXCEPT ![g] = @ \cup {"salvar"}]
    /\ arquivos' = [arquivos EXCEPT ![g] = {}]
    /\ IF agenteDisponivel
       THEN /\ pc' = [pc EXCEPT ![g] = "processing"]
            /\ UNCHANGED retorno
       ELSE /\ pc' = [pc EXCEPT ![g] = "returned"]
            /\ retorno' = [retorno EXCEPT ![g] = "atualizado"]
    /\ UNCHANGED <<agenteDisponivel, detectado, ultimoLido, detFalhou,
                   ciclos, procCount>>

\* baixar_e_salvar_pdf, lines 156-168, with
\* processar_com_agente_resumo_corrigido: the processor is built (which may
\* fail, line 188) and processar_trimestre_completo runs.
Processar(g) ==
    /\ UNCHANGED <<botVars, retryVars, procVars, textoVars, triVars,
                   baixarVars, arranqueVars,
                   escritaVars>>
    /\ pc[g] = "processing"
    /\ \E construiu \in BOOLEAN :
         IF construiu
         THEN /\ fez' = [fez EXCEPT ![g] = @ \cup {"processar"}]
              /\ procCount' = [procCount EXCEPT ![detectado[g]] = @ + 1]
         ELSE UNCHANGED <<fez, procCount>>
    /\ pc' = [pc EXCEPT ![g] = "returned"]
    /\ retorno' = [retorno EXCEPT ![g] = "atualizado"]
    /\ UNCHANGED <<ultimo, agenteDisponivel, detectado, ultimoLido, arquivos,
                   detFalhou, ciclos>>

\* The caller has the result of verificar_e_atualizar.
Retornar(g) ==
    /\ UNCHANGED <<botVars, retryVars, procVars, textoVars, triVars,
                   baixarVars, arranqueVars,
                   escritaVars>>
    /\ pc[g] = "returned"
    /\ pc' = [pc EXCEPT ![g] = "idle"]
    /\ detectado' = [detectado EXCEPT ![g] = Vazio]
    /\ ultimoLido' = [ultimoLido EXCEPT ![g] = Vazio]
    /\ arquivos' = [arquivos EXCEPT ![g] = {}]
    /\ retorno' = [retorno EXCEPT ![g] = "nenhum"]
    /\ fez' = [fez EXCEPT ![g] = {}]
    /\ detFalhou' = [detFalhou EXCEPT ![g] = FALSE]
    /\ UNCHANGED <<ultimo, agenteDisponivel, ciclos, procCount>>

\* A process dies and is restarted: its cycles are lost wherever they were,
\* what is on disk stays.
Crash(p) ==
    /\ UNCHANGED <<botVars, retryVars, procVars, textoVars, triVars,
                   baixarVars, arranqueVars,
                   escritaVars>>
    /\ \E g \in Gatilhos : Processo(g) = p /\ pc[g] # "idle"
    /\ pc' = [g \in Gatilhos |-> IF Processo(g) = p THEN "idle" ELSE pc[g]]
    /\ detectado' = [g \in Gatilhos |->
                       IF Processo(g) = p THEN Vazio ELSE detectado[g]]
    /\ ultimoLido' = [g \in Gatilhos |->
                        IF Processo(g) = p THEN Vazio ELSE ultimoLido[g]]
    /\ arquivos' = [g \in Gatilhos |->
                      IF Processo(g) = p THEN {} ELSE arquivos[g]]
    /\ retorno' = [g \in Gatilhos |->
                     IF Processo(g) = p THEN "nenhum" ELSE retorno[g]]
    /\ fez' = [g \in Gatilhos |-> IF Processo(g) = p THEN {} ELSE fez[g]]
    /\ detFalhou' = [g \in Gatilhos |->
                       IF Processo(g) = p THEN FALSE ELSE detFalhou[g]]
    /\ UNCHANGED <<ultimo, agenteDisponivel, ciclos, procCount>>

Next ==
    \/ \E g \in Gatilhos : Iniciar(g)
    \/ \E g \in Gatilhos : Detectar(g)
    \/ \E g \in Gatilhos : Baixar(g)
    \/ \E g \in Gatilhos : Salvar(g)
    \/ \E g \in Gatilhos : Processar(g)
    \/ \E g \in Gatilhos : Retornar(g)
    \/ \E p \in {"integracao", "bot"} : Crash(p)

----------------------------------------------------------------------------
(* bot.py: notification ledger and fan-out *)

MaxArtefatos == 2
MaxChecks == 2

NENHUM == <<"None">>
Chats == {101, 102}

\* Code points of the characters of a result file name, for the order
\* sorted() puts the names in.
Ord(c) ==
    CASE c = "*" -> 42
      [] c \in Digitos -> 48 + (CHOOSE n \in 0..9 :
                                  c = <<"0", "1", "2", "3", "4", "5", "6",
                                        "7", "8", "9">>[n + 1])
      [] c = "T" -> 84
      [] c = "_" -> 95

Carimbos == <<"1", "2", "3", "4", "5", "6", "7", "8", "9">>

\* _salvar_resultado_completo, line 732: analise_<trimestre>_<timestamp>.json
\* (the prefix and the suffix, common to every name, are left out).
NomeArquivo(tri, n) == tri \o <<"_", Carimbos[n]>>

RECURSIVE LexMenor(_, _)
\* a < b as Python compares two strings.
LexMenor(a, b) ==
    IF Len(b) = 0 THEN FALSE
    ELSE IF Len(a) = 0 THEN TRUE
    ELSE IF Ord(Head(a)) # Ord(Head(b)) THEN Ord(Head(a)) < Ord(Head(b))
    ELSE LexMenor(Tail(a), Tail(b))

\* load_latest_summary, lines 121-127: sorted(..., reverse=True)[0].
MaisRecente(S) == CHOOSE a \in S : \A b \in S \ {a} : LexMenor(b, a)

NomesPossiveis ==
    {NomeArquivo(t, n) : t \in {T4T25, T1T26}, n \in 1..(MaxArtefatos + 1)}

Membros(s) == {s[i] : i \in 1..Len(s)}

\* subs.remove(chat_id): the first occurrence is taken out.
RECURSIVE Remover(_, _)
Remover(s, c) ==
    IF Len(s) = 0 THEN <<>>
    ELSE IF Head(s) = c THEN Tail(s)
    ELSE <<Head(s)>> \o Remover(Tail(s), c)

\* The except outside the loop: a failed delivery ends the fan-out.
AposFalhaAborta(i, n) == n + 1

\* After a failed send the loop goes back to the subscriber before.
AposFalhaVolta(i, n) == IF i > 1 THEN i - 1 ELSE i + 1

\* periodic_check, lines 819-848: the subscriber served after the delivery to
\* subscriber i has raised (the except of line 847 is inside the loop).
AposFalha(i, n) == i + 1

\* periodic_check, lines 822-843: the sends to one subscriber are the notice
\* (0), the parts of the executive summary (1..partes) and, when there is a
\* keyboard, the options (partes + 1).
UltimoPasso(n) == IF n.botoes THEN n.partes + 1 ELSE n.partes

SemNotif == [filename |-> NENHUM, partes |-> 0, botoes |-> FALSE]

BotLocalInicial ==
    /\ bpc = "idle"
    /\ notif = SemNotif
    /\ subs = <<>>
    /\ idx = 0
    /\ passo = 0
    /\ tentados = {}
    /\ falharam = {}
    /\ sucessos = 0

BotInit ==
    /\ resultados = {}
    /\ lastSent = NENHUM
    /\ subscribers = <<>>
    /\ BotLocalInicial
    /\ fanouts = [a \in NomesPossiveis |-> 0]
    /\ falhouEntrega = NENHUM
    /\ checks = 0

\* The pipeline persists a run: _salvar_resultado_completo adds a file to
\* resultados_analises/ (timestamps grow with time).
NovoResultado ==
    /\ UNCHANGED <<pipeVars, retryVars, procVars, textoVars, triVars,
                   baixarVars, arranqueVars,
                   escritaVars>>
    /\ Cardinality(resultados) < MaxArtefatos
    /\ \E t \in {T4T25, T1T26} :
         resultados' =
             resultados \cup {NomeArquivo(t, Cardinality(resultados) + 1)}
    /\ UNCHANGED <<lastSent, subscribers, bpc, notif, subs, idx, passo,
                   tentados, falharam, sucessos, fanouts, falhouEntrega,
                   checks>>

\* subscribe, lines 697-718; read_json gives the default [] when the read
\* fails and write_json gives False when the write fails.
Subscribe(c) ==
    /\ UNCHANGED <<pipeVars, retryVars, procVars, textoVars, triVars,
                   baixarVars, arranqueVars,
                   escritaVars>>
    /\ \E leu \in BOOLEAN, escreveu \in BOOLEAN :
         LET lidos == IF leu THEN subscribers ELSE <<>>
         IN  /\ c \notin Membros(lidos)
             /\ subscribers' =
                  IF escreveu THEN Append(lidos, c) ELSE subscribers
             /\ subscribers' # subscribers
    /\ UNCHANGED <<resultados, lastSent, bpc, notif, subs, idx, passo,
                   tentados, falharam, sucessos, fanouts, falhouEntrega,
                   checks>>

\* unsubscribe, lines 721-740.
Unsubscribe(c) ==
    /\ UNCHANGED <<pipeVars, retryVars, procVars, textoVars, triVars,
                   baixarVars, arranqueVars,
                   escritaVars>>
    /\ \E leu \in BOOLEAN, escreveu \in BOOLEAN :
         LET lidos == IF leu THEN subscribers ELSE <<>>
         IN  /\ c \in Membros(lidos)
             /\ subscribers' =
                  IF escreveu THEN Remover(lidos, c) ELSE subscribers
             /\ subscribers' # subscribers
    /\ UNCHANGED <<resultados, lastSent, bpc, notif, subs, idx, passo,
                   tentados, falharam, sucessos, fanouts, falhouEntrega,
                   checks>>

\* periodic_check, lines 806-817, with send_new_summary_notification: from the
\* call to the first await of the fan-out loop nothing suspends but
\* load_latest_summary, so the step is one.  The latest result is loaded, the
\* ledger is read and compared, the ledger is written (the result of
\* write_json is not looked at) and the registry is read.
Verificar ==
    /\ UNCHANGED <<pipeVars, retryVars, procVars, textoVars, triVars,
                   baixarVars, arranqueVars,
                   escritaVars>>
    /\ bpc = "idle"
    /\ checks < MaxChecks
    /\ checks' = checks + 1
    /\ \E carregou \in BOOLEAN, leuLedger \in BOOLEAN, escreveu \in BOOLEAN,
          leuSubs \in BOOLEAN, partes \in 1..2, botoes \in BOOLEAN :
         LET filename == MaisRecente(resultados)
             last == IF leuLedger THEN lastSent ELSE NENHUM
             lidos == IF leuSubs THEN subscribers ELSE <<>>
         IN  IF resultados = {} \/ ~carregou \/ filename = last
             THEN /\ leuLedger /\ escreveu /\ leuSubs
                  /\ partes = 1 /\ ~botoes
                  /\ (resultados = {} => carregou)
                  /\ UNCHANGED <<lastSent, bpc, notif, subs, idx, passo,
                                 tentados, falharam, sucessos, fanouts,
                                 falhouEntrega>>
             ELSE /\ lastSent' = IF escreveu THEN filename ELSE lastSent
                  /\ IF lidos = <<>>
                     THEN /\ partes = 1 /\ ~botoes
                          /\ UNCHANGED <<bpc, notif, subs, idx, passo,
                                         tentados, falharam, sucessos,
                                         fanouts, falhouEntrega>>
                     ELSE /\ bpc' = "fanout"
                          /\ notif' = [filename |-> filename,
                                       partes |-> partes, botoes |-> botoes]
                          /\ subs' = lidos
                          /\ idx' = 1
                          /\ passo' = 0
                          /\ falhouEntrega' = NENHUM
                          /\ UNCHANGED <<tentados, falharam, sucessos,
                                         fanouts>>
    /\ UNCHANGED <<resultados, subscribers>>

\* periodic_check, lines 819-848: one awaited send_message to subs[idx].
Enviar ==
    /\ UNCHANGED <<pipeVars, retryVars, procVars, textoVars, triVars,
                   baixarVars, arranqueVars,
                   escritaVars>>
    /\ bpc = "fanout"
    /\ \E ok \in BOOLEAN :
         LET chat == subs[idx]
             prox == IF ~ok THEN AposFalha(idx, Len(subs))
                     ELSE IF passo = UltimoPasso(notif) THEN idx + 1
                     ELSE idx
         IN  /\ tentados' = tentados \cup {chat}
             /\ falharam' = IF ok THEN falharam ELSE falharam \cup {chat}
             /\ sucessos' = IF ok /\ passo = UltimoPasso(notif)
                            THEN sucessos + 1 ELSE sucessos
             /\ idx' = prox
             /\ passo' = IF prox = idx THEN passo + 1 ELSE 0
             /\ bpc' = IF prox > Len(subs) THEN "concluido" ELSE "fanout"
             /\ fanouts' = IF tentados = {}
                           THEN [fanouts EXCEPT ![notif.filename] = @ + 1]
                           ELSE fanouts
             /\ falhouEntrega' = IF ok THEN falhouEntrega
                                 ELSE notif.filename
    /\ UNCHANGED <<resultados, lastSent, subscribers, notif, subs, checks>>

\* periodic_check, line 850: the loop is over and the check returns.
Concluir ==
    /\ UNCHANGED <<pipeVars, retryVars, procVars, textoVars, triVars,
                   baixarVars, arranqueVars,
                   escritaVars>>
    /\ bpc = "concluido"
    /\ bpc' = "idle"
    /\ notif' = SemNotif
    /\ subs' = <<>>
    /\ idx' = 0
    /\ passo' = 0
    /\ tentados' = {}
    /\ falharam' = {}
    /\ sucessos' = 0
    /\ UNCHANGED <<resultados, lastSent, subscribers, fanouts,
                   falhouEntrega, checks>>

\* The bot process dies during a check and is restarted.
BotCrash ==
    /\ UNCHANGED <<pipeVars, retryVars, procVars, textoVars, triVars,
                   baixarVars, arranqueVars,
                   escritaVars>>
    /\ bpc # "idle"
    /\ bpc' = "idle"
    /\ notif' = SemNotif
    /\ subs' = <<>>
    /\ idx' = 0
    /\ passo' = 0
    /\ tentados' = {}
    /\ falharam' = {}
    /\ sucessos' = 0
    /\ UNCHANGED <<resultados, lastSent, subscribers, fanouts,
                   falhouEntrega, checks>>

NextNotify ==
    \/ NovoResultado
    \/ \E c \in Chats : Subscribe(c)
    \/ \E c \in Chats : Unsubscribe(c)
    \/ Verificar
    \/ Enviar
    \/ Concluir
    \/ BotCrash

----------------------------------------------------------------------------
(* retry_with_backoff (AgenteResumo.py, integracao.py; bot.py awaits the    *)
(* same loop)                                                               *)

MaxRetries == 3

Atrasos == {1, 2, 4}
Fatores == {1, 2, 3}

\* What the wrapped functions raise: a failed connection (the generative
\* service, the bot's start), a file that is not there (PyPDFLoader in
\* _carregar_pdf) and a result file that is not JSON (load_latest_summary
\* raises it again, bot.py lines 135-137).
Classes == {"ConnectionError", "FileNotFoundError", "JSONDecodeError"}

\* The failures that another attempt cannot cure: missing file, malformed
\* input.
NaoTransitoria(c) == c \in {"FileNotFoundError", "JSONDecodeError"}

RECURSIVE Pot(_, _)
Pot(b, n) == IF n = 0 THEN 1 ELSE b * Pot(b, n - 1)

\* A wait after every failed attempt, the last included.
DeveEsperarSempre(att, max) == att < max

\* No wait after any failed attempt.
DeveEsperarNunca(att, max) == FALSE

\* wrapper, line 57: a wait follows every failed attempt but the last.
DeveEsperar(att, max) == att < max - 1

RetryLocalInicial ==
    /\ rpc = "start"
    /\ attempt = 0
    /\ delay = 0
    /\ lastException = 0
    /\ chamadas = 0
    /\ esperas = <<>>
    /\ resultado = [tipo |-> "nenhum", valor |-> 0]

RetryInit ==
    /\ cfg \in [max_retries : 0..MaxRetries, initial_delay : Atrasos,
                backoff : Fatores]
    /\ sucessoEm \in 0..MaxRetries
    /\ classe \in Classes
    /\ RetryLocalInicial

\* wrapper, lines 48-49.
Entrar ==
    /\ UNCHANGED <<pipeVars, botVars, procVars, textoVars, triVars,
                   baixarVars, arranqueVars,
                   escritaVars>>
    /\ rpc = "start"
    /\ delay' = cfg.initial_delay
    /\ lastException' = 0
    /\ attempt' = 0
    /\ rpc' = "loop"
    /\ UNCHANGED <<cfg, sucessoEm, classe, chamadas, esperas, resultado>>

\* wrapper, lines 51 and 64: the next attempt, or the raise of
\* last_exception once range(max_retries) is used up (raise None, when no
\* attempt was made, is a TypeError).
Laco ==
    /\ UNCHANGED <<pipeVars, botVars, procVars, textoVars, triVars,
                   baixarVars, arranqueVars,
                   escritaVars>>
    /\ rpc = "loop"
    /\ IF attempt < cfg.max_retries
       THEN /\ rpc' = "call"
            /\ UNCHANGED resultado
       ELSE /\ rpc' = "raised"
            /\ resultado' = IF lastException = 0
                            THEN [tipo |-> "TypeError", valor |-> 0]
                            ELSE [tipo |-> "raise", valor |-> lastException]
    /\ UNCHANGED <<cfg, sucessoEm, classe, attempt, delay, lastException,
                   chamadas, esperas>>

\* wrapper, lines 52-62: func is called; it returns, or it raises.  The
\* except of line 54 is "except Exception": the class of the exception is
\* not looked at.
Chamar ==
    /\ UNCHANGED <<pipeVars, botVars, procVars, textoVars, triVars,
                   baixarVars, arranqueVars,
                   escritaVars>>
    /\ rpc = "call"
    /\ chamadas' = chamadas + 1
    /\ IF chamadas' = sucessoEm
       THEN /\ rpc' = "returned"
            /\ resultado' = [tipo |-> "return", valor |-> chamadas']
            /\ UNCHANGED <<attempt, lastException>>
       ELSE /\ lastException' = chamadas'
            /\ UNCHANGED resultado
            /\ IF DeveEsperar(attempt, cfg.max_retries)
               THEN /\ rpc' = "sleep"
                    /\ UNCHANGED attempt
               ELSE /\ rpc' = "loop"
                    /\ attempt' = attempt + 1
    /\ UNCHANGED <<cfg, sucessoEm, classe, delay, esperas>>

\* wrapper, lines 59-60: time.sleep(delay); delay *= config.backoff.
Dormir ==
    /\ UNCHANGED <<pipeVars, botVars, procVars, textoVars, triVars,
                   baixarVars, arranqueVars,
                   escritaVars>>
    /\ rpc = "sleep"
    /\ esperas' = Append(esperas, delay)
    /\ delay' = delay * cfg.backoff
    /\ attempt' = attempt + 1
    /\ rpc' = "loop"
    /\ UNCHANGED <<cfg, sucessoEm, classe, lastException, chamadas,
                   resultado>>

NextRetry ==
    \/ Entrar
    \/ Laco
    \/ Chamar
    \/ Dormir

----------------------------------------------------------------------------
(* AgenteResumo.py: TokenValidator, CacheManager and the three processors  *)

MaxMtime == 1
MaxPassagens == 2
MaxExcesso == 2

Docs == {"d1", "d2"}

\* The kinds as the processors name them for the cache and for an error.
TiposCache == {"release", "demonstracoes", "transcricao"}

\* 'tipo' of a successful result.
TipoResultado(tipo) ==
    CASE tipo = "release" -> "release_resultados"
      [] tipo = "demonstracoes" -> "demonstracoes_financeiras"
      [] tipo = "transcricao" -> "transcricao"

CHARS_PER_TOKEN == 4
LIMITE_GPT_4O_MINI == 128000

\* validar_prompt, line 139: int(limite * MARGEM_SEGURANCA), the margin
\* being 0.75.
LimiteSeguro == (LIMITE_GPT_4O_MINI * 3) \div 4

\* validar_prompt, lines 141-145: len(texto) / CHARS_PER_TOKEN is a division
\* of reals, so the prompt is valid up to 4 * limite_seguro characters.
validar_prompt(n) == ~(n > CHARS_PER_TOKEN * LimiteSeguro)

\* The cuts of lines 409 and 546.
CORTE_RELEASE == 15000
CORTE_TRANSCRICAO == 20000

\* The least content a document must have and the least summary a release
\* must get (lines 399, 468, 541 and 422).
MIN_CONTEUDO == 50
MIN_RESUMO == 20

\* A summary is its text (an identifier) and the length of the text
\* stripped.
SemResumo == [id |-> "", len |-> 0]

\* What chain.invoke does: it raises, or it answers with a text.
Levanta == [levanta |-> TRUE, id |-> "", len |-> 0]
Responde(id, n) == [levanta |-> FALSE, id |-> id, len |-> n]

\* A result of a processor; Ausente is None.
Ausente ==
    [tipo |-> "", arquivo |-> "", status |-> "None", resumo |-> SemResumo,
     fonte_cache |-> FALSE, erro |-> ""]

erro_resultado(tipo, arquivo, erro) ==
    [tipo |-> tipo, arquivo |-> arquivo, status |-> "erro",
     resumo |-> SemResumo, fonte_cache |-> FALSE, erro |-> erro]

Sucesso(tipo, arquivo, resumo) ==
    [tipo |-> TipoResultado(tipo), arquivo |-> arquivo, status |-> "sucesso",
     resumo |-> resumo, fonte_cache |-> FALSE, erro |-> ""]

\* What a processor hands back: the result, the calls of chain.invoke it
\* made, the length of the text it passed to chain.invoke and whether the
\* result goes to salvar_cache.
Feito(res, llm, enviado, guardar) ==
    [res |-> res, llm |-> llm, enviado |-> enviado, guardar |-> guardar]

\* The characters of conteudo after lines 407-409 (the pages are joined
\* with no separator counted).
ConteudoRelease(n) == IF validar_prompt(n) THEN n ELSE CORTE_RELEASE

\* The length of the text in the documents given to chain.invoke.  The
\* release processor cuts conteudo and then passes documentos, the pages as
\* loaded (line 419); the statements processor cuts nothing (line 478); the
\* transcript processor cuts texto and passes it (lines 545-557).
TextoEnviado(tipo, n) ==
    CASE tipo = "release" -> n
      [] tipo = "demonstracoes" -> n
      [] tipo = "transcricao" ->
             IF n > CORTE_TRANSCRICAO THEN CORTE_TRANSCRICAO ELSE n

MensagemVazio(tipo) ==
    CASE tipo = "release" -> "PDF vazio ou conteudo insuficiente"
      [] tipo = "demonstracoes" -> "PDF vazio"
      [] tipo = "transcricao" -> "Conteudo insuficiente"

\* The summarization with every result, the errors too, handed to the
\* cache.
ResumirGuardaErro(tipo, arquivo, resposta, enviado) ==
    IF resposta.levanta
    THEN Feito(erro_resultado(tipo, arquivo, "str(e)"), 1, enviado, TRUE)
    ELSE IF tipo = "release" /\ resposta.len < MIN_RESUMO
    THEN Feito(erro_resultado(tipo, arquivo, "Resumo vazio"), 1, enviado,
               TRUE)
    ELSE Feito(Sucesso(tipo, arquivo, [id |-> resposta.id,
                                       len |-> resposta.len]),
               1, enviado, TRUE)

\* Lines 411-448, 471-503 and 549-582: chain.invoke and what follows.  Only
\* the release processor looks at the summary it got (line 422).
Resumir(tipo, arquivo, resposta, enviado) ==
    IF resposta.levanta
    THEN Feito(erro_resultado(tipo, arquivo, "str(e)"), 1, enviado, FALSE)
    ELSE IF tipo = "release" /\ resposta.len < MIN_RESUMO
    THEN Feito(erro_resultado(tipo, arquivo, "Resumo vazio"), 1, enviado,
               FALSE)
    ELSE Feito(Sucesso(tipo, arquivo, [id |-> resposta.id,
                                       len |-> resposta.len]),
               1, enviado, TRUE)

\* A processor that does not look at the length of what it loaded.
ProcessadorSemMinimo(tipo, arquivo, e) ==
    IF e.carga # "ok"
    THEN Feito(erro_resultado(tipo, arquivo, "str(e)"), 0, 0, FALSE)
    ELSE Resumir(tipo, arquivo, e.resposta, TextoEnviado(tipo, e.tamanho))

\* A processor on a file that exists and is not in the cache (lines 395-448,
\* 464-503, 519-582).  e.carga tells whether the file could be loaded (a
\* loader that raises, a format that is not supported), e.tamanho is the
\* number of characters extracted, e.resposta what chain.invoke does.
Processador(tipo, arquivo, e) ==
    IF e.carga # "ok"
    THEN Feito(erro_resultado(tipo, arquivo, "str(e)"), 0, 0, FALSE)
    ELSE IF e.tamanho < MIN_CONTEUDO
    THEN Feito(erro_resultado(tipo, arquivo, MensagemVazio(tipo)), 0, 0,
               FALSE)
    ELSE Resumir(tipo, arquivo, e.resposta, TextoEnviado(tipo, e.tamanho))

\* _gerar_hash: md5 of path, kind and mtime (0 when stat fails).
gerar_hash(arquivo, tipo, mt) == <<arquivo, tipo, mt>>

\* The cache directory is the set of its files, each the result stored
\* under a hash.  Guardado is what the file of a hash holds: cache_file
\* .exists() and json.load (lines 100-103).
Guardado(dir, chave) ==
    IF \E x \in dir : x.chave = chave
    THEN (CHOOSE x \in dir : x.chave = chave).valor
    ELSE Ausente

\* obter_cache without its except: the error of the read reaches the
\* processor.
ObterCacheSemExcept(dir, chave, leu) ==
    [levantou |-> ~leu,
     valor |-> IF leu THEN Guardado(dir, chave) ELSE Ausente]

\* obter_cache, lines 94-106: a read that fails is logged and None is
\* returned.
obter_cache(dir, chave, leu) ==
    [levantou |-> FALSE,
     valor |-> IF leu THEN Guardado(dir, chave) ELSE Ausente]

\* salvar_cache, lines 108-118: a write that fails is logged.
salvar_cache(dir, chave, res, gravou) ==
    [levantou |-> FALSE,
     dir |-> IF gravou
             THEN {x \in dir : x.chave # chave}
                      \cup {[chave |-> chave, valor |-> res]}
             ELSE dir]

\* The result of the cache handed back as it was stored.
AoAcertarSemMarca(guardado) == guardado

\* Lines 388-390, 457-459 and 512-514.
AoAcertar(guardado) == [guardado EXCEPT !.fonte_cache = TRUE]

SemChamada == [feita |-> FALSE]

\* What the calls of the cache specification are made with.
ResumoR1 == Responde("R1", 200)
ResumoR2 == Responde("R2", 300)
EntradaNula == [carga |-> "raise", tamanho |-> 0, resposta |-> Levanta]
EntradasCache ==
    [carga : {"ok", "raise"}, tamanho : {0, 100},
     resposta : {Levanta, Responde("", 0), ResumoR1, ResumoR2}]

\* .cache_processamentos/ outlives the process (mkdir exist_ok, line 75):
\* it is empty, or it holds the success an earlier run stored for the
\* release d1 as it is now.
CacheInicial ==
    {{},
     {[chave |-> gerar_hash("d1", "release", 1),
       valor |-> Sucesso("release", "d1", [id |-> "R1", len |-> 200])]}}

ProcInit ==
    /\ cacheDir \in CacheInicial
    /\ mtime = [d \in Docs |-> IF d = "d1" /\ cacheDir # {} THEN 1 ELSE 0]
    /\ processados = {x.chave : x \in cacheDir}
    /\ ultima = SemChamada
    /\ passagens = 0

\* baixar_arquivo (screnshot.py) writes the file: its mtime moves on.
Regravar(d) ==
    /\ UNCHANGED <<pipeVars, botVars, retryVars, textoVars, triVars,
                   baixarVars, arranqueVars,
                   escritaVars>>
    /\ mtime[d] < MaxMtime
    /\ mtime' = [mtime EXCEPT ![d] = @ + 1]
    /\ UNCHANGED <<cacheDir, processados, ultima, passagens>>

\* processar_release_resultados, processar_demonstracoes_financeiras and
\* processar_transcricao on document d: the cache is asked, the file is
\* looked for, the document is processed and the result is stored.  leu and
\* gravou tell whether the read and the write of the cache file go through
\* (there is no read where there is no file); the parts of e that the call
\* does not come to look at are held fixed.
ProcessarArquivo(d, tipo) ==
    /\ UNCHANGED <<pipeVars, botVars, retryVars, textoVars, triVars,
                   baixarVars, arranqueVars,
                   escritaVars>>
    /\ passagens < MaxPassagens
    /\ passagens' = passagens + 1
    /\ \E leu \in BOOLEAN, gravou \in BOOLEAN, e \in EntradasCache :
         LET chave == gerar_hash(d, tipo, mtime[d])
             c == obter_cache(cacheDir, chave, leu)
             acerto == c.valor # Ausente
             p == IF acerto
                  THEN Feito(AoAcertar(c.valor), 0, 0, FALSE)
                  ELSE IF mtime[d] = 0
                  THEN Feito(erro_resultado(tipo, d, "Arquivo nao encontrado"),
                             0, 0, FALSE)
                  ELSE Processador(tipo, d, e)
             s == salvar_cache(cacheDir, chave, p.res, gravou)
             grava == ~c.levantou /\ p.guardar
         IN  /\ ~leu => Guardado(cacheDir, chave) # Ausente
             /\ ~gravou => grava
             /\ (acerto \/ mtime[d] = 0) => e = EntradaNula
             /\ (e.carga # "ok" \/ e.tamanho < MIN_CONTEUDO)
                    => e.resposta = Levanta
             /\ e.carga # "ok" => e.tamanho = 0
             /\ cacheDir' = IF grava THEN s.dir ELSE cacheDir
             /\ processados' =
                  IF grava THEN processados \cup {chave} ELSE processados
             /\ ultima' = [feita |-> TRUE, doc |-> d, tipo |-> tipo,
                           chave |-> chave, antes |-> chave \in processados,
                           guardado |-> Guardado(cacheDir, chave),
                           leu |-> leu,
                           gravou |-> gravou, acerto |-> acerto,
                           levantou |-> c.levantou \/ (grava /\ s.levantou),
                           falhouAntes |->
                               /\ ultima.feita
                               /\ ultima.chave = chave
                               /\ ultima.proc.res.status = "erro",
                           proc |-> IF c.levantou
                                    THEN Feito(Ausente, 0, 0, FALSE) ELSE p]
    /\ UNCHANGED mtime

NextCache ==
    \/ \E d \in Docs : Regravar(d)
    \/ \E d \in Docs, tipo \in TiposCache : ProcessarArquivo(d, tipo)

\* ---- one processor applied to one document

\* The lengths around the thresholds of the processors.
Tamanhos ==
    {0, MIN_CONTEUDO - 1, MIN_CONTEUDO}
        \cup {c + x : c \in {CORTE_RELEASE, CORTE_TRANSCRICAO,
                              CHARS_PER_TOKEN * LimiteSeguro},
                      x \in (0 - 1)..MaxExcesso}

EntradasTexto ==
    [carga : {"ok", "raise"}, tamanho : Tamanhos,
     resposta : {Levanta, Responde("", 0), Responde("r", MIN_RESUMO - 1),
                 Responde("R0", MIN_RESUMO), ResumoR1}]

SemSaida == [feita |-> FALSE]
SemEntrada == [tipo |-> "nenhum"]

TextoInit ==
    /\ entrada \in [tipo : TiposCache, e : EntradasTexto]
    /\ saida = SemSaida

\* A processor is called on a file that exists and is not in the cache.
AplicarProcessador ==
    /\ UNCHANGED <<pipeVars, botVars, retryVars, procVars, triVars,
                   baixarVars, arranqueVars,
                   escritaVars>>
    /\ ~saida.feita
    /\ saida' = [feita |-> TRUE,
                 proc |-> Processador(entrada.tipo, "doc", entrada.e)]
    /\ UNCHANGED entrada

NextProcessador == AplicarProcessador

----------------------------------------------------------------------------
(* bot.py: split_message                                                    *)

MaxTexto == 4
MaxLimite == 3

\* The placeholder of line 108.
VAZIO == <<"(", "v", "a", "z", "i", "o", ")">>

Letras == {"a", "b"}
Textos == UNION {[1..n -> Letras] : n \in 0..MaxTexto}

\* The slicer that gives only the chunks of full length.
split_sem_resto(text, limit) ==
    [k \in 1..(Len(text) \div limit) |->
        SubSeq(text, (k - 1) * limit + 1, k * limit)]

\* split_message, lines 105-109: range(0, len(text), limit) gives the
\* starts i and text[i : i + limit] ends at the end of the text.
split_message(text, limit) ==
    IF text = <<>> THEN <<VAZIO>>
    ELSE [k \in 1..((Len(text) + limit - 1) \div limit) |->
            LET i == (k - 1) * limit
                fim == IF i + limit < Len(text) THEN i + limit ELSE Len(text)
            IN  SubSeq(text, i + 1, fim)]

SplitInit ==
    /\ entrada \in [texto : Textos, limite : 1..MaxLimite]
    /\ saida = SemSaida

\* split_message is called on a text with a limit.
AplicarSplit ==
    /\ UNCHANGED <<pipeVars, botVars, retryVars, procVars, triVars,
                   baixarVars, arranqueVars,
                   escritaVars>>
    /\ ~saida.feita
    /\ saida' = [feita |-> TRUE,
                 partes |-> split_message(entrada.texto, entrada.limite)]
    /\ UNCHANGED entrada

NextSplit == AplicarSplit

----------------------------------------------------------------------------
(* AgenteResumo.py: processar_trimestre_completo and the consolidation     *)

\* The names baixar_e_salvar_pdf gives the files of a quarter (screnshot.py
\* lines 92-116): <tipo_arquivo>_<trimestre>.pdf.
TrimestreDaPasta == T4T25
SufixoNome == <<"_">> \o TrimestreDaPasta \o <<".", "p", "d", "f">>
NomeRelease ==
    <<"r", "e", "l", "e", "a", "s", "e", "_", "r", "e", "s", "u", "l", "t",
      "a", "d", "o", "s">> \o SufixoNome
NomeDemonstracoes ==
    <<"d", "e", "m", "o", "n", "s", "t", "r", "a", "c", "o", "e", "s", "_",
      "f", "i", "n", "a", "n", "c", "e", "i", "r", "a", "s">> \o SufixoNome
NomeTranscricao ==
    <<"t", "r", "a", "n", "s", "c", "r", "i", "c", "a", "o">> \o SufixoNome

\* A file put in the folder by hand (processar_trimestre_manualmente takes
\* any folder), the transcript of the results call: its name matches the
\* patterns of two kinds.
NomeTranscricaoResultados ==
    <<"t", "r", "a", "n", "s", "c", "r", "i", "c", "a", "o", "_", "r", "e",
      "s", "u", "l", "t", "a", "d", "o", "s">> \o SufixoNome
NomesPasta ==
    {NomeRelease, NomeDemonstracoes, NomeTranscricao,
     NomeTranscricaoResultados}

\* A glob pattern *<meio>*<fim>.
Padrao(meio, fim) == [meio |-> meio, fim |-> fim]
PadraoResultados ==
    Padrao(<<"r", "e", "s", "u", "l", "t", "a", "d", "o", "s">>,
           <<".", "p", "d", "f">>)
PadraoDemonst ==
    Padrao(<<"d", "e", "m", "o", "n", "s", "t">>, <<".", "p", "d", "f">>)
PadraoFin == Padrao(<<"f", "i", "n">>, <<".", "p", "d", "f">>)
PadraoTranscr == Padrao(<<"t", "r", "a", "n", "s", "c", "r">>, <<>>)
PadraoTranscript ==
    Padrao(<<"t", "r", "a", "n", "s", "c", "r", "i", "p", "t">>, <<>>)

\* Whether a name matches a pattern.
Casa(p, nome) ==
    /\ Len(nome) >= Len(p.meio) + Len(p.fim)
    /\ SubSeq(nome, Len(nome) - Len(p.fim) + 1, Len(nome)) = p.fim
    /\ \E i \in 1..(Len(nome) - Len(p.fim) - Len(p.meio) + 1) :
         SubSeq(nome, i, i + Len(p.meio) - 1) = p.meio

\* The orders in which the files of S may be listed.
RECURSIVE Listagens(_)
Listagens(S) ==
    IF S = {} THEN {<<>>}
    ELSE UNION {{<<x>> \o l : l \in Listagens(S \ {x})} : x \in S}

\* list(pasta.glob(p)): the files of the folder that match, in the order
\* the directory gives them, which is any order.
glob(p, presentes) == Listagens({n \in presentes : Casa(p, n)})

Par(tipo, lista) == [i \in 1..Len(lista) |-> [tipo |-> tipo, nome |-> lista[i]]]

\* Lines 608-625: the calls of the processors, in order, for each way the
\* five listings may come out.
Classifica(presentes) ==
    {Par("release", r) \o Par("demonstracoes", d1 \o d2)
         \o Par("transcricao", t1 \o t2) :
        r \in glob(PadraoResultados, presentes),
        d1 \in glob(PadraoDemonst, presentes),
        d2 \in glob(PadraoFin, presentes),
        t1 \in glob(PadraoTranscr, presentes),
        t2 \in glob(PadraoTranscript, presentes)}

\* The blocks of a consolidated text.
Cabecalho(rotulo, tri) ==
    [bloco |-> "cabecalho", rotulo |-> rotulo, tri |-> tri,
     resumo |-> SemResumo]
Corpo(resumo) ==
    [bloco |-> "texto", rotulo |-> "", tri |-> <<>>, resumo |-> resumo]
Nulo == <<>>

\* _consolidar_simples, line 651: the header of the i-th summary.
RotuloDaPosicao(i) ==
    IF i = 1 THEN "RELEASE DE RESULTADOS" ELSE "CALL/TRANSCRICAO"

RECURSIVE Secoes(_, _)
Secoes(resumos, i) ==
    IF i > Len(resumos) THEN <<>>
    ELSE <<Cabecalho(RotuloDaPosicao(i), <<>>), Corpo(resumos[i])>>
             \o Secoes(resumos, i + 1)

\* _consolidar_simples, lines 642-654.
consolidar_simples(resumos, tri) ==
    IF Len(resumos) = 1
    THEN <<Cabecalho("RESUMO", tri), Corpo(resumos[1])>>
    ELSE <<Cabecalho("RESUMO CONSOLIDADO", tri)>> \o Secoes(resumos, 1)

\* The generative service asked for every number of summaries.
ConsolidaComLLMSempre(n) == n >= 1

\* Line 631.
ConsolidaComLLM(n) == n > 1

\* _chamar_llm, line 348: RetryConfig(max_retries=3, initial_delay=1.0).
LLM_MAX_RETRIES == 3
MIN_CONSOLIDADO == 50

\* Every answer of the service taken as it comes.
AceitaLLMSempre(n) == TRUE

\* _consolidar_com_llm, line 697: resultado and len(resultado.strip()) > 50.
AceitaLLM(n) == n > MIN_CONSOLIDADO

TextoLLM(n) ==
    <<[bloco |-> "llm", rotulo |-> "", tri |-> <<>>,
       resumo |-> [id |-> "LLM", len |-> n]]>>

EhSucesso(r) == r.status = "sucesso"

ResumosDe(res) ==
    LET ok == SelectSeq(res, EhSucesso)
    IN  [i \in 1..Len(ok) |-> ok[i].resumo]

\* The folder is the set of its files, each a name and whether the file is
\* empty or readable.
Pastas ==
    {S \in SUBSET (NomesPasta \X {"vazio", "ok"}) :
        \A x, y \in S : x[1] = y[1] => x = y}
Presentes(p) == {x[1] : x \in p}
EstadoDe(p, nome) == (CHOOSE x \in p : x[1] = nome)[2]

TriLocalInicial ==
    /\ tpc = "inicio"
    /\ fila = <<>>
    /\ arquivosProcessados = <<>>
    /\ resumosSucesso = <<>>
    /\ resumoExecutivo = Nulo
    /\ llmTentativas = 0
    /\ llmLen = 0 - 1
    /\ persistido = Nulo

TriInit ==
    /\ pasta \in Pastas
    /\ TriLocalInicial

\* Lines 586-612: the folder is looked for and its files are listed.
IniciarTrimestre ==
    /\ UNCHANGED <<pipeVars, botVars, retryVars, procVars, textoVars,
                   baixarVars, arranqueVars,
                   escritaVars>>
    /\ tpc = "inicio"
    /\ \E existe \in BOOLEAN :
         /\ ~existe => Presentes(pasta) = {}
         /\ IF existe
            THEN /\ tpc' = "processando"
                 /\ fila' \in Classifica(Presentes(pasta))
            ELSE /\ tpc' = "sem_pasta"
                 /\ UNCHANGED fila
    /\ UNCHANGED <<pasta, arquivosProcessados, resumosSucesso,
                   resumoExecutivo, llmTentativas, llmLen, persistido>>

\* The successful result this run already has for the file and the kind:
\* what the cache holds for the call.
JaResumidos(res, tipo, nome) ==
    {i \in 1..Len(res) : /\ res[i].status = "sucesso"
                         /\ res[i].arquivo = nome
                         /\ res[i].tipo = TipoResultado(tipo)}

\* Lines 615-625: one call of a processor and the append of its result.
\* The cache holds nothing of the folder when the run begins.
ProcessarProximo ==
    /\ UNCHANGED <<pipeVars, botVars, retryVars, procVars, textoVars,
                   baixarVars, arranqueVars,
                   escritaVars>>
    /\ tpc = "processando"
    /\ fila # <<>>
    /\ \E cacheOk \in BOOLEAN, resposta \in {Levanta, ResumoR1, ResumoR2} :
         LET a == Head(fila)
             antes == JaResumidos(arquivosProcessados, a.tipo, a.nome)
             e == [carga |-> "ok",
                   tamanho |-> IF EstadoDe(pasta, a.nome) = "ok"
                               THEN 100 ELSE 0,
                   resposta |-> resposta]
             res == IF antes # {} /\ cacheOk
                    THEN AoAcertar(arquivosProcessados[CHOOSE i \in antes :
                                                         TRUE])
                    ELSE Processador(a.tipo, a.nome, e).res
         IN  /\ ~cacheOk => antes # {}
             /\ (EstadoDe(pasta, a.nome) # "ok" \/ (antes # {} /\ cacheOk))
                    => resposta = Levanta
             /\ arquivosProcessados' = Append(arquivosProcessados, res)
    /\ fila' = Tail(fila)
    /\ UNCHANGED <<pasta, tpc, resumosSucesso, resumoExecutivo,
                   llmTentativas, llmLen, persistido>>

\* Lines 627-634: resumos_sucesso and the choice of the consolidation.
Consolidar ==
    /\ UNCHANGED <<pipeVars, botVars, retryVars, procVars, textoVars,
                   baixarVars, arranqueVars,
                   escritaVars>>
    /\ tpc = "processando"
    /\ fila = <<>>
    /\ LET resumos == ResumosDe(arquivosProcessados)
       IN  /\ resumosSucesso' = resumos
           /\ IF resumos = <<>>
              THEN /\ tpc' = "salvar"
                   /\ UNCHANGED resumoExecutivo
              ELSE IF ConsolidaComLLM(Len(resumos))
              THEN /\ tpc' = "llm"
                   /\ UNCHANGED resumoExecutivo
              ELSE /\ tpc' = "salvar"
                   /\ resumoExecutivo' =
                        consolidar_simples(resumos, TrimestreDaPasta)
    /\ UNCHANGED <<pasta, fila, arquivosProcessados, llmTentativas, llmLen,
                   persistido>>

\* _consolidar_com_llm, lines 695-705: one attempt of _chamar_llm.  An
\* attempt that raises is followed by the next one until max_retries are
\* used up; the exception then reaches the except of line 703.
ChamarLLM ==
    /\ UNCHANGED <<pipeVars, botVars, retryVars, procVars, textoVars,
                   baixarVars, arranqueVars,
                   escritaVars>>
    /\ tpc = "llm"
    /\ llmTentativas' = llmTentativas + 1
    /\ \E levanta \in BOOLEAN, n \in {0, MIN_CONSOLIDADO, MIN_CONSOLIDADO + 1} :
         /\ levanta => n = 0
         /\ IF levanta
            THEN /\ UNCHANGED llmLen
                 /\ IF llmTentativas' < LLM_MAX_RETRIES
                    THEN UNCHANGED <<tpc, resumoExecutivo>>
                    ELSE /\ tpc' = "salvar"
                         /\ resumoExecutivo' =
                              consolidar_simples(resumosSucesso,
                                                 TrimestreDaPasta)
            ELSE /\ llmLen' = n
                 /\ tpc' = "salvar"
                 /\ resumoExecutivo' =
                      IF AceitaLLM(n) THEN TextoLLM(n)
                      ELSE consolidar_simples(resumosSucesso,
                                              TrimestreDaPasta)
    /\ UNCHANGED <<pasta, fila, arquivosProcessados, resumosSucesso,
                   persistido>>

\* _salvar_resultado_completo, lines 725-739: the record is written; a write
\* that fails is logged.
SalvarResultado ==
    /\ UNCHANGED <<pipeVars, botVars, retryVars, procVars, textoVars,
                   baixarVars, arranqueVars,
                   escritaVars>>
    /\ tpc = "salvar"
    /\ \E escreveu \in BOOLEAN :
         persistido' =
             IF escreveu
             THEN <<[arquivos_processados |-> arquivosProcessados,
                     resumo_executivo |-> resumoExecutivo]>>
             ELSE Nulo
    /\ tpc' = "fim"
    /\ UNCHANGED <<pasta, fila, arquivosProcessados, resumosSucesso,
                   resumoExecutivo, llmTentativas, llmLen>>

NextTrimestre ==
    \/ IniciarTrimestre
    \/ ProcessarProximo
    \/ Consolidar
    \/ ChamarLLM
    \/ SalvarResultado

----------------------------------------------------------------------------
(* screnshot.py: the download loop of baixar_e_salvar_pdf and baixar_arquivo *)

\* tipos_arquivo, lines 92-96, in the order of the dictionary.
TiposArquivo ==
    <<"release_resultados", "demonstracoes_financeiras", "transcricao">>

\* What the page and the server do for one kind: the cell of the table
\* (find_element raises, the link is 'off', the link is there), the GET
\* (raises, answers), the bytes of the body and whether the file can be
\* written.
Paginas ==
    [link : {"raise", "off", "ok"}, get : {"raise", "ok"}, corpo : {0, 1},
     grava : BOOLEAN]

\* The size check of line 253.
Aceita(tam) == tam > 0

\* baixar_arquivo, lines 236-264: one requests.get; the body is written
\* over the file; True only when the file is there and not empty.  tam is
\* the size of the file before the call (-1: no file).
baixar_arquivo(p, tam) ==
    IF p.get = "raise"
    THEN [ok |-> FALSE, pedidos |-> 1, tam |-> tam]
    ELSE IF ~p.grava
    THEN [ok |-> FALSE, pedidos |-> 1, tam |-> tam]
    ELSE [ok |-> Aceita(p.corpo), pedidos |-> 1, tam |-> p.corpo]

\* The loop left at the first kind that fails.
ProximoTipoAborta(i, baixou) ==
    IF baixou THEN i + 1 ELSE Len(TiposArquivo) + 1

\* Lines 99-135: the try of one kind is inside the loop, so the kind after
\* kind i is served whatever happened to kind i.
ProximoTipo(i, baixou) == i + 1

\* The size of the file of a kind in pasta_destino (-1: no file).
TamanhoEm(dir, tipo) ==
    IF \E x \in dir : x.tipo = tipo
    THEN (CHOOSE x \in dir : x.tipo = tipo).tam
    ELSE 0 - 1

BaixarLocalInicial ==
    /\ dpc = "inicio"
    /\ tipoIdx = 0
    /\ tentativas = <<>>
    /\ arquivosBaixados = <<>>

\* pasta_destino may hold the files of an earlier fetch (mkdir exist_ok).
BaixarInit ==
    /\ destino \in SUBSET {[tipo |-> TiposArquivo[i], tam |-> 1] :
                             i \in 1..Len(TiposArquivo)}
    /\ BaixarLocalInicial

\* Lines 70-90: the browser session opens the page; a failure here is the
\* except of line 137.
AbrirPagina ==
    /\ UNCHANGED <<pipeVars, botVars, retryVars, procVars, textoVars,
                   triVars, arranqueVars,
                   escritaVars>>
    /\ dpc = "inicio"
    /\ \E geral \in BOOLEAN :
         IF geral
         THEN /\ dpc' = "erro_geral"
              /\ UNCHANGED tipoIdx
         ELSE /\ dpc' = "laco"
              /\ tipoIdx' = 1
    /\ UNCHANGED <<destino, tentativas, arquivosBaixados>>

\* Lines 98-135: one turn of the loop, the link of a kind resolved and
\* downloaded.
BaixarTipo ==
    /\ UNCHANGED <<pipeVars, botVars, retryVars, procVars, textoVars,
                   triVars, arranqueVars,
                   escritaVars>>
    /\ dpc = "laco"
    /\ \E p \in Paginas :
         LET tipo == TiposArquivo[tipoIdx]
             b == IF p.link = "ok"
                  THEN baixar_arquivo(p, TamanhoEm(destino, tipo))
                  ELSE [ok |-> FALSE, pedidos |-> 0,
                        tam |-> TamanhoEm(destino, tipo)]
             prox == ProximoTipo(tipoIdx, b.ok)
         IN  /\ p.link # "ok" => (p.get = "raise" /\ p.corpo = 0 /\ ~p.grava)
             /\ p.get = "raise" => (p.corpo = 0 /\ ~p.grava)
             /\ ~p.grava => p.corpo = 0
             /\ destino' =
                  IF b.tam < 0 THEN destino
                  ELSE {x \in destino : x.tipo # tipo}
                           \cup {[tipo |-> tipo, tam |-> b.tam]}
             /\ tentativas' =
                  Append(tentativas,
                         [tipo |-> tipo, pagina |-> p, pedidos |-> b.pedidos,
                          baixou |-> b.ok])
             /\ arquivosBaixados' =
                  IF b.ok THEN Append(arquivosBaixados, tipo)
                  ELSE arquivosBaixados
             /\ tipoIdx' = prox
             /\ dpc' = IF prox > Len(TiposArquivo) THEN "fim" ELSE "laco"

\* Lines 114-116: the name a kind is saved under in pasta_destino.
NomeDoTipo(tipo) ==
    CASE tipo = "release_resultados" -> NomeRelease
      [] tipo = "demonstracoes_financeiras" -> NomeDemonstracoes
      [] tipo = "transcricao" -> NomeTranscricao

\* Lines 145-160 with processar_com_agente_resumo_corrigido (lines 174-197):
\* when something was downloaded processar_trimestre_completo is called on
\* pasta_destino and lists the folder (AgenteResumo.py, lines 608-610);
\* arquivos_baixados is passed on and only its length is printed.
ProcessarPasta ==
    /\ UNCHANGED <<pipeVars, botVars, retryVars, procVars, textoVars,
                   arranqueVars,
                   escritaVars>>
    /\ dpc \in {"fim", "erro_geral"}
    /\ IF arquivosBaixados = <<>>
       THEN /\ dpc' = "nada_baixado"
            /\ UNCHANGED fila
       ELSE IF ~agenteDisponivel
       THEN /\ dpc' = "baixado"
            /\ UNCHANGED fila
       ELSE /\ dpc' = "processado"
            /\ fila' \in Classifica({NomeDoTipo(x.tipo) : x \in destino})
    /\ UNCHANGED <<destino, tipoIdx, tentativas, arquivosBaixados>>
    /\ UNCHANGED <<pasta, tpc, arquivosProcessados, resumosSucesso,
                   resumoExecutivo, llmTentativas, llmLen, persistido>>

NextBaixar ==
    \/ AbrirPagina
    \/ BaixarTipo
    \/ ProcessarPasta

----------------------------------------------------------------------------
(* integracao.py: IntegratedSystem.run and check_dependencies              *)

\* required_env and required_files, lines 105 and 116-120.
Credenciais == {"OPENAI_API_KEY", "TOKEN"}
Requeridos == {"bot.py", "screnshot.py", "AgenteResumo.py"}

\* A variable of the environment is not there, is the empty string or has
\* a value; os.getenv gives None, '' or the value.
Ambientes == [Credenciais -> {"ausente", "vazia", "definida"}]

\* Line 106: not os.getenv(var).
Faltando(amb) == {v \in Credenciais : amb[v] # "definida"}

\* check_dependencies without the test of the environment.
CheckSemCredenciais(amb, fich, importa, cria) ==
    /\ Requeridos \subseteq fich
    /\ importa
    /\ cria

\* check_dependencies, lines 100-173: the credentials, the files, the
\* imports (importa) and the directories (cria), in this order.
check_dependencies(amb, fich, importa, cria) ==
    /\ Faltando(amb) = {}
    /\ Requeridos \subseteq fich
    /\ importa
    /\ cria

\* start_bot, line 223: RetryConfig(max_retries=3, initial_delay=2.0).
BOT_MAX_RETRIES == 3

MaxInicios == 4

\* __init__, lines 80-83, and the start of run.
ArranqueLocalInicial ==
    /\ spc = "inicio"
    /\ botProcess = "None"
    /\ botInicios = 0
    /\ monitoringThread = FALSE
    /\ running = TRUE
    /\ worker = "nenhum"
    /\ botsVivos = 0
    /\ botTentativa = 0

ArranqueInit ==
    /\ ambiente \in Ambientes
    /\ ficheiros \in SUBSET Requeridos
    /\ ArranqueLocalInicial

\* run, lines 420-423.
VerificarDependencias ==
    /\ UNCHANGED <<pipeVars, botVars, retryVars, procVars, textoVars,
                   triVars, baixarVars,
                   escritaVars>>
    /\ spc = "inicio"
    /\ \E importa \in BOOLEAN, cria \in BOOLEAN :
         /\ ~importa => cria
         /\ (Faltando(ambiente) # {} \/ ~(Requeridos \subseteq ficheiros))
                => (importa /\ cria)
         /\ spc' = IF check_dependencies(ambiente, ficheiros, importa, cria)
                   THEN "dependencias_ok" ELSE "abortado"
    /\ UNCHANGED <<ambiente, ficheiros, botProcess, botInicios,
                   monitoringThread, running, worker, botsVivos,
                   botTentativa>>

\* run, lines 425-428, with test_components.
TestarComponentes ==
    /\ UNCHANGED <<pipeVars, botVars, retryVars, procVars, textoVars,
                   triVars, baixarVars,
                   escritaVars>>
    /\ spc = "dependencias_ok"
    /\ \E passou \in BOOLEAN :
         spc' = IF passou THEN "iniciando_bot" ELSE "abortado"
    /\ UNCHANGED <<ambiente, ficheiros, botProcess, botInicios,
                   monitoringThread, running, worker, botsVivos,
                   botTentativa>>

\* start_bot creating a process whatever self.bot_process says.
PodeCriarSempre(proc) == TRUE

\* start_bot, lines 230-232: Popen is reached only when there is no process
\* or poll() says that it has ended.
PodeCriar(proc) == proc # "rodando"

\* The bot process is gone: what periodic_check held in memory is lost,
\* what is on disk stays.
BotSemMemoria ==
    /\ bpc' = "idle"
    /\ notif' = SemNotif
    /\ subs' = <<>>
    /\ idx' = 0
    /\ passo' = 0
    /\ tentados' = {}
    /\ falharam' = {}
    /\ sucessos' = 0
    /\ UNCHANGED <<resultados, lastSent, subscribers, fanouts,
                   falhouEntrega, checks>>

\* One attempt of start_bot (lines 224-264), called by run (lines 430-438)
\* or by restart_bot (lines 503-510): with a process that runs it returns
\* True; otherwise the process is created and watched for 15 s, and when it
\* ends in that time the attempt raises and the next one follows until the
\* attempts are used up.  run aborts when they are, restart_bot logs it.
IniciarBot ==
    /\ UNCHANGED <<pipeVars, botVars, retryVars, procVars, textoVars,
                   triVars, baixarVars,
                   escritaVars>>
    /\ spc \in {"iniciando_bot", "reiniciando_bot"}
    /\ LET feito == IF spc = "iniciando_bot" THEN "bot_ok" ELSE "operacional"
           falhou == IF spc = "iniciando_bot" THEN "abortado"
                     ELSE "operacional"
       IN  IF ~PodeCriar(botProcess)
           THEN /\ spc' = feito
                /\ botTentativa' = 0
                /\ UNCHANGED <<botProcess, botInicios, botsVivos>>
           ELSE /\ botInicios' = botInicios + 1
                /\ \E terminou \in BOOLEAN :
                     IF terminou
                     THEN /\ botProcess' = "terminado"
                          /\ UNCHANGED botsVivos
                          /\ IF botTentativa + 1 < BOT_MAX_RETRIES
                             THEN /\ spc' = spc
                                  /\ botTentativa' = botTentativa + 1
                             ELSE /\ spc' = falhou
                                  /\ botTentativa' = 0
                     ELSE /\ botProcess' = "rodando"
                          /\ botsVivos' = botsVivos + 1
                          /\ spc' = feito
                          /\ botTentativa' = 0
    /\ UNCHANGED <<ambiente, ficheiros, monitoringThread, running, worker>>

\* run, line 441, with start_monitoring: the thread is started and is at the
\* top of the loop of monitoring_worker.
IniciarMonitoramento ==
    /\ UNCHANGED <<pipeVars, botVars, retryVars, procVars, textoVars,
                   triVars, baixarVars,
                   escritaVars>>
    /\ spc = "bot_ok"
    /\ monitoringThread' = TRUE
    /\ worker' = "topo"
    /\ spc' = "operacional"
    /\ UNCHANGED <<ambiente, ficheiros, botProcess, botInicios, running,
                   botsVivos, botTentativa>>

\* The bot process ends by itself.
BotMorre ==
    /\ UNCHANGED <<pipeVars, retryVars, procVars, textoVars, triVars,
                   baixarVars,
                   escritaVars>>
    /\ botProcess = "rodando"
    /\ botProcess' = "terminado"
    /\ botsVivos' = botsVivos - 1
    /\ BotSemMemoria
    /\ UNCHANGED <<ambiente, ficheiros, spc, botInicios, monitoringThread,
                   running, worker, botTentativa>>

\* restart_bot, lines 489-501, the command 'restart-bot' of the loop of run
\* (line 468): terminate and wait(timeout=5); when the wait times out kill()
\* is sent and not waited for, so the poll() of start_bot may still find the
\* process running (morreu false).  start_bot follows.
ReiniciarBot ==
    /\ UNCHANGED <<pipeVars, retryVars, procVars, textoVars, triVars,
                   baixarVars,
                   escritaVars>>
    /\ spc = "operacional"
    /\ running
    /\ botInicios < MaxInicios
    /\ \E morreu \in BOOLEAN :
         IF botProcess = "rodando" /\ morreu
         THEN /\ botProcess' = "terminado"
              /\ botsVivos' = botsVivos - 1
              /\ BotSemMemoria
         ELSE /\ botProcess # "rodando" => morreu
              /\ UNCHANGED <<botProcess, botsVivos>>
              /\ UNCHANGED botVars
    /\ spc' = "reiniciando_bot"
    /\ UNCHANGED <<ambiente, ficheiros, botInicios, monitoringThread,
                   running, worker, botTentativa>>

\* monitoring_worker, line 295: while self.running.
WorkerTopo ==
    /\ UNCHANGED <<pipeVars, botVars, retryVars, procVars, textoVars,
                   triVars, baixarVars,
                   escritaVars>>
    /\ worker = "topo"
    /\ worker' = IF running THEN "ciclo" ELSE "saiu"
    /\ UNCHANGED <<ambiente, ficheiros, spc, botProcess, botInicios,
                   monitoringThread, running, botsVivos, botTentativa>>

\* monitoring_worker, lines 296-316: the cycle (verificar under retry, then
\* save_last_check) runs to its end.
WorkerCiclo ==
    /\ UNCHANGED <<pipeVars, botVars, retryVars, procVars, textoVars,
                   triVars, baixarVars,
                   escritaVars>>
    /\ worker = "ciclo"
    /\ worker' = "espera"
    /\ UNCHANGED <<ambiente, ficheiros, spc, botProcess, botInicios,
                   monitoringThread, running, botsVivos, botTentativa>>

\* monitoring_worker, lines 320-323: the wait in steps of one second is left
\* when the interval is over or when self.running is false.
WorkerEspera ==
    /\ UNCHANGED <<pipeVars, botVars, retryVars, procVars, textoVars,
                   triVars, baixarVars,
                   escritaVars>>
    /\ worker = "espera"
    /\ worker' = "topo"
    /\ UNCHANGED <<ambiente, ficheiros, spc, botProcess, botInicios,
                   monitoringThread, running, botsVivos, botTentativa>>

\* stop, line 582, of the system that is up: reached from the finally of
\* the command loop of run (line 485) and from the signal handler (line 97).
PararFlag ==
    /\ UNCHANGED <<pipeVars, botVars, retryVars, procVars, textoVars,
                   triVars, baixarVars,
                   escritaVars>>
    /\ spc = "operacional"
    /\ running
    /\ running' = FALSE
    /\ spc' = "parando"
    /\ UNCHANGED <<ambiente, ficheiros, botProcess, botInicios,
                   monitoringThread, worker, botsVivos, botTentativa>>

\* stop, lines 585-594: the bot process is terminated, and killed when it
\* has not ended in 5 s.
PararBot ==
    /\ UNCHANGED <<pipeVars, retryVars, procVars, textoVars, triVars,
                   baixarVars,
                   escritaVars>>
    /\ spc = "parando"
    /\ IF botProcess = "rodando"
       THEN /\ botProcess' = "terminado"
            /\ botsVivos' = botsVivos - 1
            /\ BotSemMemoria
       ELSE /\ UNCHANGED <<botProcess, botsVivos>>
            /\ UNCHANGED botVars
    /\ spc' = "bot_parado"
    /\ UNCHANGED <<ambiente, ficheiros, botInicios, monitoringThread,
                   running, worker, botTentativa>>

\* stop, lines 597-602, and the end of main: the thread is joined for at
\* most 2 s and the interpreter exits; the thread is a daemon (line 341) and
\* ends with it wherever it is.
Sair ==
    /\ UNCHANGED <<pipeVars, botVars, retryVars, procVars, textoVars,
                   triVars, baixarVars,
                   escritaVars>>
    /\ spc = "bot_parado"
    /\ spc' = "encerrado"
    /\ worker' = IF worker \in {"nenhum", "saiu"} THEN worker ELSE "morto"
    /\ UNCHANGED <<ambiente, ficheiros, botProcess, botInicios,
                   monitoringThread, running, botsVivos, botTentativa>>

NextArranque ==
    \/ VerificarDependencias
    \/ TestarComponentes
    \/ IniciarBot
    \/ IniciarMonitoramento
    \/ BotMorre
    \/ ReiniciarBot
    \/ WorkerTopo
    \/ WorkerCiclo
    \/ WorkerEspera
    \/ PararFlag
    \/ PararBot
    \/ Sair

----------------------------------------------------------------------------
(* bot.py: write_json and read_json on one file                             *)

\* The file holds the text json.dump produced, kept here token by token.
Abre == [sinal |-> "[", n |-> 0]
Fecha == [sinal |-> "]", n |-> 0]
Virgula == [sinal |-> ",", n |-> 0]
Numero(c) == [sinal |-> "n", n |-> c]

\* The values written: the registry, a list of chat ids (subscribe, lines
\* 701-708).
Registos == {<<>>, <<101>>, <<102>>, <<101, 102>>, <<102, 101>>}

\* json.dump(obj, f), line 300: the text of a list.
RECURSIVE Itens(_)
Itens(v) ==
    IF v = <<>> THEN <<>>
    ELSE IF Len(v) = 1 THEN <<Numero(v[1])>>
    ELSE <<Numero(v[1]), Virgula>> \o Itens(Tail(v))

json_dump(v) == <<Abre>> \o Itens(v) \o <<Fecha>>

\* json.load(f), line 284: the list a complete text denotes; any other text
\* raises JSONDecodeError.
ErroDeJson == [ok |-> FALSE, valor |-> <<>>]

RECURSIVE LeItens(_)
LeItens(t) ==
    IF Len(t) = 1 /\ t[1].sinal = "n"
        THEN [ok |-> TRUE, valor |-> <<t[1].n>>]
    ELSE IF Len(t) >= 3 /\ t[1].sinal = "n" /\ t[2] = Virgula
        THEN LET r == LeItens(SubSeq(t, 3, Len(t)))
             IN  IF r.ok THEN [ok |-> TRUE, valor |-> <<t[1].n>> \o r.valor]
                 ELSE ErroDeJson
    ELSE ErroDeJson

json_load(t) ==
    IF Len(t) < 2 \/ t[1] # Abre \/ t[Len(t)] # Fecha THEN ErroDeJson
    ELSE IF Len(t) = 2 THEN [ok |-> TRUE, valor |-> <<>>]
    ELSE LeItens(SubSeq(t, 2, Len(t) - 1))

\* read_json, lines 278-291: the value of the file, and the default when the
\* text does not parse.
read_json(t, default) ==
    IF json_load(t).ok THEN json_load(t).valor ELSE default

EscritorParado == [pc |-> "parado", antigo |-> <<>>, novo |-> <<>>, n |-> 0]
SemLeitura == [feita |-> FALSE, valor |-> <<>>]

\* The file holds a complete value and nothing is being written.
EscritaInit ==
    /\ disco \in {json_dump(v) : v \in Registos}
    /\ escritor = EscritorParado
    /\ leitura = SemLeitura

\* write_json, line 299: open(path, "w") empties the file before anything
\* of the new value is written.
AbrirEscrita ==
    /\ UNCHANGED <<pipeVars, botVars, retryVars, procVars, textoVars, triVars,
                   baixarVars, arranqueVars>>
    /\ escritor.pc = "parado"
    /\ \E v \in Registos :
          /\ v # read_json(disco, <<>>)
          /\ escritor' = [pc |-> "aberto", antigo |-> read_json(disco, <<>>),
                          novo |-> v, n |-> 0]
    /\ disco' = <<>>
    /\ leitura' = SemLeitura

\* write_json, line 300: json.dump writes the text, which reaches the file
\* piece by piece.
Despejar ==
    /\ UNCHANGED <<pipeVars, botVars, retryVars, procVars, textoVars, triVars,
                   baixarVars, arranqueVars>>
    /\ escritor.pc = "aberto"
    /\ escritor.n < Len(json_dump(escritor.novo))
    /\ disco' = Append(disco, json_dump(escritor.novo)[escritor.n + 1])
    /\ escritor' = [escritor EXCEPT !.n = @ + 1]
    /\ UNCHANGED leitura

\* write_json, lines 299-302: the with block closes the file; True is given.
FecharEscrita ==
    /\ UNCHANGED <<pipeVars, botVars, retryVars, procVars, textoVars, triVars,
                   baixarVars, arranqueVars>>
    /\ escritor.pc = "aberto"
    /\ escritor.n = Len(json_dump(escritor.novo))
    /\ escritor' = [escritor EXCEPT !.pc = "parado"]
    /\ UNCHANGED <<disco, leitura>>

\* The process ends inside write_json; the file stays as it is at that
\* moment.
CrashEscrita ==
    /\ UNCHANGED <<pipeVars, botVars, retryVars, procVars, textoVars, triVars,
                   baixarVars, arranqueVars>>
    /\ escritor.pc = "aberto"
    /\ escritor' = [escritor EXCEPT !.pc = "interrompido"]
    /\ UNCHANGED <<disco, leitura>>

\* read_json(SUBSCRIBERS_FILE, []), lines 701 and 811, in the process
\* started after the crash or between two writes.
Ler ==
    /\ UNCHANGED <<pipeVars, botVars, retryVars, procVars, textoVars, triVars,
                   baixarVars, arranqueVars>>
    /\ escritor.pc \in {"parado", "interrompido"}
    /\ ~leitura.feita
    /\ leitura' = [feita |-> TRUE, valor |-> read_json(disco, <<>>)]
    /\ UNCHANGED <<disco, escritor>>

NextEscrita ==
    \/ AbrirEscrita
    \/ Despejar
    \/ FecharEscrita
    \/ CrashEscrita
    \/ Ler

----------------------------------------------------------------------------
(* Specifications *)

\* The parts of the state a specification does not run stay as constructed.
PipeParado ==
    /\ ultimo = Vazio
    /\ agenteDisponivel = TRUE
    /\ LocalInicial
    /\ ciclos = 0
    /\ procCount = [t \in Rotulos |-> 0]

RetryParado ==
    /\ cfg = [max_retries |-> 0, initial_delay |-> 1, backoff |-> 1]
    /\ sucessoEm = 0
    /\ classe = "ConnectionError"
    /\ RetryLocalInicial

ProcParado ==
    /\ mtime = [d \in Docs |-> 0]
    /\ cacheDir = {}
    /\ processados = {}
    /\ ultima = SemChamada
    /\ passagens = 0

TriParado ==
    /\ pasta = {}
    /\ TriLocalInicial

TextoParado ==
    /\ entrada = SemEntrada
    /\ saida = SemSaida

BaixarParado ==
    /\ destino = {}
    /\ BaixarLocalInicial

EscritaParado ==
    /\ disco = <<>>
    /\ escritor = EscritorParado
    /\ leitura = SemLeitura

ArranqueParado ==
    /\ ambiente = [v \in Credenciais |-> "ausente"]
    /\ ficheiros = {}
    /\ ArranqueLocalInicial

Init ==
    /\ PipeInit /\ BotInit /\ RetryParado
    /\ ProcParado /\ TextoParado /\ TriParado
    /\ BaixarParado /\ ArranqueParado /\ EscritaParado
Spec == Init /\ [][Next]_vars

InitNotify ==
    /\ PipeParado /\ BotInit /\ RetryParado
    /\ ProcParado /\ TextoParado /\ TriParado
    /\ BaixarParado /\ ArranqueParado /\ EscritaParado
SpecNotify == InitNotify /\ [][NextNotify]_vars

InitRetry ==
    /\ PipeParado /\ BotInit /\ RetryInit
    /\ ProcParado /\ TextoParado /\ TriParado
    /\ BaixarParado /\ ArranqueParado /\ EscritaParado
SpecRetry == InitRetry /\ [][NextRetry]_vars

BotParado == BotInit

InitCache ==
    /\ PipeParado /\ BotParado /\ RetryParado
    /\ ProcInit /\ TextoParado /\ TriParado
    /\ BaixarParado /\ ArranqueParado /\ EscritaParado
SpecCache == InitCache /\ [][NextCache]_vars

InitProcessador ==
    /\ PipeParado /\ BotParado /\ RetryParado
    /\ ProcParado /\ TextoInit /\ TriParado
    /\ BaixarParado /\ ArranqueParado /\ EscritaParado
SpecProcessador == InitProcessador /\ [][NextProcessador]_vars

InitTrimestre ==
    /\ PipeParado /\ BotParado /\ RetryParado
    /\ ProcParado /\ TextoParado /\ TriInit
    /\ BaixarParado /\ ArranqueParado /\ EscritaParado
SpecTrimestre == InitTrimestre /\ [][NextTrimestre]_vars

InitBaixar ==
    /\ PipeParado /\ BotParado /\ RetryParado
    /\ ProcParado /\ TextoParado /\ TriParado
    /\ BaixarInit /\ ArranqueParado /\ EscritaParado
SpecBaixar == InitBaixar /\ [][NextBaixar]_vars

InitArranque ==
    /\ PipeParado /\ BotParado /\ RetryParado
    /\ ProcParado /\ TextoParado /\ TriParado
    /\ BaixarParado /\ ArranqueInit /\ EscritaParado
SpecArranque == InitArranque /\ [][NextArranque]_vars

InitSplit ==
    /\ PipeParado /\ BotParado /\ RetryParado
    /\ ProcParado /\ SplitInit /\ TriParado
    /\ BaixarParado /\ ArranqueParado /\ EscritaParado
SpecSplit == InitSplit /\ [][NextSplit]_vars

InitEscrita ==
    /\ PipeParado /\ BotParado /\ RetryParado
    /\ ProcParado /\ TextoParado /\ TriParado
    /\ BaixarParado /\ ArranqueParado /\ EscritaInit
SpecEscrita == InitEscrita /\ [][NextEscrita]_vars

\* The system with its credentials and files in place, one result to notify
\* and two subscribers in the registry.
ParadaInit ==
    /\ ambiente = [v \in Credenciais |-> "definida"]
    /\ ficheiros = Requeridos
    /\ ArranqueLocalInicial
    /\ resultados = {NomeArquivo(T4T25, 1)}
    /\ lastSent = NENHUM
    /\ subscribers = <<101, 102>>
    /\ BotLocalInicial
    /\ fanouts = [a \in NomesPossiveis |-> 0]
    /\ falhouEntrega = NENHUM
    /\ checks = 0

\* The bot process, while it is alive, runs periodic_check (monitor_loop,
\* bot.py lines 856-866) next to the threads of IntegratedSystem.
NextParada ==
    \/ NextArranque
    \/ (botProcess = "rodando" /\ Verificar)
    \/ (botProcess = "rodando" /\ Enviar)
    \/ (botProcess = "rodando" /\ Concluir)

InitParada ==
    /\ PipeParado /\ RetryParado
    /\ ProcParado /\ TextoParado /\ TriParado
    /\ BaixarParado /\ ParadaInit /\ EscritaParado
SpecParada == InitParada /\ [][NextParada]_vars

----------------------------------------------------------------------------
(* Properties of the monitoring cycle (Spec) *)

EmCurso(g) == pc[g] \in {"detecting", "fetching", "fetched", "processing"}

PassouGate(g) ==
    \/ pc[g] \in {"fetching", "fetched", "processing"}
    \/ pc[g] = "returned" /\ retorno[g] \in {"problemas_download", "atualizado"}

Decidiu(g) == pc[g] \in {"fetching", "fetched", "processing", "returned"}

\* C2: for every quarter label, over any sequence of cycles (restarts and a
\* varying detector included), processar_trimestre_completo runs at most
\* once.
C2_ProcessaNoMaximoUmaVez == \A t \in Rotulos : procCount[t] <= 1

C4_MarcadorAoEntrarEmFetching ==
    \A g \in Gatilhos : PassouGate(g) => ultimo = detectado[g]

\* C5: no two cycles are in progress at the same time, whatever their
\* triggers.
C5_UmCicloPorVez == Cardinality({g \in Gatilhos : EmCurso(g)}) <= 1

\* C8: when detection raises, the cycle ends at once with an error outcome
\* given to the caller (nothing is raised), having fetched, saved and
\* processed nothing.
C8_FalhaDeDeteccaoAborta ==
    \A g \in Gatilhos :
        detFalhou[g] => /\ pc[g] = "returned"
                        /\ retorno[g] = "erro"
                        /\ fez[g] = {}

C8_Witness ==
    \E g \in Gatilhos :
        /\ detFalhou[g]
        /\ pc[g] = "returned"
        /\ ultimo # Vazio

\* C9: a detected label that is empty or not of the form digit, 'T', two
\* digits is a no-op: the cycle does not enter Fetching, downloads nothing
\* and writes nothing.
C9_RotuloInvalidoSemMudanca ==
    \A g \in Gatilhos :
        (Decidiu(g) /\ ~detFalhou[g] /\ ~BemFormado(detectado[g]))
            => /\ pc[g] = "returned"
               /\ retorno[g] = "nenhuma_atualizacao"
               /\ fez[g] = {}

\* C16: a cycle that entered Fetching ends with a persisted QuarterRun:
\* when it returns it has run processar_trimestre_completo, the only writer
\* of the record, also when nothing was downloaded.
C16_CicloSemprePersiste ==
    \A g \in Gatilhos :
        (pc[g] = "returned" /\ "fetch" \in fez[g]) => "processar" \in fez[g]

----------------------------------------------------------------------------
(* Properties of the notification check (SpecNotify) *)

\* C1: each artifact (result file name) is fanned out to the registry by at
\* most one notification check: no second check makes a delivery of it.
C1_FanoutNoMaximoUmaVez == \A a \in NomesPossiveis : fanouts[a] <= 1

\* C6: while the ledger names the artifact of the running check, every
\* subscriber of the registry read by that check has had a delivery attempt.
C6_LedgerSoAposFanout ==
    (bpc = "fanout" /\ lastSent = notif.filename)
        => \A i \in 1..Len(subs) : subs[i] \in tentados

\* C7: when the fan-out loop is over, every subscriber of the registry read
\* at its start has had a delivery attempt, whatever failed for the others.
C7_TodosTentados ==
    bpc = "concluido" => \A i \in 1..Len(subs) : subs[i] \in tentados

C7_Witness ==
    /\ bpc = "concluido"
    /\ Len(subs) = 2
    /\ subs[1] \in falharam
    /\ subs[2] \in tentados
    /\ sucessos = 1

SemRepetidos(s) == \A i, j \in 1..Len(s) : s[i] = s[j] => i = j

\* C20: no command leaves the same chat id twice in the registry;
\* /subscribe of an id that is in the registry and /unsubscribe of one that
\* is not leave the registry as it was.
C20_RegistroSemRepetidos ==
    [][/\ SemRepetidos(subscribers')
       /\ \A c \in Chats :
            /\ (Subscribe(c) /\ c \in Membros(subscribers))
                   => subscribers' = subscribers
            /\ (Unsubscribe(c) /\ c \notin Membros(subscribers))
                   => subscribers' = subscribers]_vars

\* The timestamp in a result file name and the record generated last.
CarimboDe(a) == CHOOSE n \in 1..Len(Carimbos) : Carimbos[n] = a[Len(a)]
MaisNovo(S) == CHOOSE a \in S : \A b \in S : CarimboDe(b) <= CarimboDe(a)

\* C30: the record a notification check picks and fans out is the one
\* generated last: after a run of 1T26 is persisted next to an older one of
\* 4T25, the check that starts a fan-out serves the record of 1T26.
C30_NotificaOMaisNovo ==
    [][(Verificar /\ bpc' = "fanout")
           => notif'.filename = MaisNovo(resultados)]_vars

\* C31: the fan-out is sequential.  Every send goes to the subscriber at the
\* position of the loop and no subscriber after it has had an attempt; the
\* next send is the next message of the same subscriber (the announcement,
\* then the chunks of the executive summary in order, then the buttons when
\* there are any) or the first message of the subscriber that follows.
C31_FanoutSequencial ==
    [][Enviar =>
         /\ \A j \in 1..Len(subs) : subs[j] \in tentados' => j <= idx
         /\ \/ /\ idx' = idx
               /\ passo' = passo + 1
               /\ passo' <= notif.partes + (IF notif.botoes THEN 1 ELSE 0)
            \/ /\ idx' = idx + 1
               /\ passo' = 0]_vars

C31_Witness ==
    /\ bpc = "fanout"
    /\ Len(subs) = 2
    /\ idx = 2
    /\ notif.partes = 2
    /\ notif.botoes
    /\ passo = notif.partes + 1
    /\ subs[1] \in tentados \ falharam
    /\ sucessos = 1

\* C36: a notification check starts the fan-out of an artifact only when
\* last_sent.json has recorded it: a check whose write of the ledger fails
\* makes no delivery.
C36_FanoutSoComLedgerGravado ==
    [][(Verificar /\ bpc' = "fanout") => lastSent' = notif'.filename]_vars

\* C35: a failed delivery is not final.  When the last fan-out of the
\* record that is still the latest had a failed delivery and the registry
\* is not empty, the next notification check starts a fan-out of that same
\* record, no new run of the pipeline being needed.
C35_EntregaFalhadaRepetida ==
    [][(/\ Verificar
        /\ resultados # {}
        /\ falhouEntrega = MaisRecente(resultados)
        /\ subscribers # <<>>)
           => /\ bpc' = "fanout"
              /\ notif'.filename = falhouEntrega]_vars

\* C38: a check that finds a new record while the registry is empty writes
\* it to the ledger and makes no delivery; a record that the ledger names
\* and of which no delivery was ever made is not fanned out by any later
\* notification check, so a chat that subscribes afterwards does not
\* receive it.
C38_SemAssinantesNuncaEntregue ==
    [][/\ (Verificar /\ subscribers = <<>> /\ lastSent' # lastSent)
           => (lastSent' = MaisRecente(resultados) /\ bpc' = "idle")
       /\ (Verificar /\ lastSent # NENHUM /\ fanouts[lastSent] = 0)
           => ~(bpc' = "fanout" /\ notif'.filename = lastSent)]_vars

----------------------------------------------------------------------------
(* Properties of split_message (SpecSplit) *)

RECURSIVE Concatena(_)
Concatena(ps) == IF ps = <<>> THEN <<>> ELSE Head(ps) \o Concatena(Tail(ps))

\* C32: split_message slices by length only.  For a text that is not empty
\* every chunk is not empty and has at most limit characters, every chunk
\* but the last has exactly limit characters and the chunks put together in
\* order are the text; for the empty text the result is the one placeholder.
C32_SplitPorComprimento ==
    saida.feita =>
        LET ps == saida.partes
        IN  IF entrada.texto = <<>>
            THEN ps = <<VAZIO>>
            ELSE /\ Len(ps) >= 1
                 /\ \A k \in 1..Len(ps) :
                      Len(ps[k]) >= 1 /\ Len(ps[k]) <= entrada.limite
                 /\ \A k \in 1..(Len(ps) - 1) : Len(ps[k]) = entrada.limite
                 /\ Concatena(ps) = entrada.texto

C32_Witness ==
    /\ saida.feita
    /\ Len(entrada.texto) = MaxTexto
    /\ entrada.limite = MaxLimite
    /\ Len(saida.partes) = 2
    /\ Len(saida.partes[2]) = MaxTexto - MaxLimite

----------------------------------------------------------------------------
(* Properties of the retry executor (SpecRetry) *)

SempreFalha == sucessoEm = 0 \/ sucessoEm > cfg.max_retries

\* C10: with N >= 1 attempts and an operation that fails on every call, the
\* operation is called exactly N times, exactly N - 1 waits happen, the i-th
\* of d0 * b^(i-1), and the failure of the last attempt is raised.
C10_RetryEsgotado ==
    (rpc = "raised" /\ cfg.max_retries >= 1 /\ SempreFalha)
        => /\ chamadas = cfg.max_retries
           /\ Len(esperas) = cfg.max_retries - 1
           /\ \A i \in 1..Len(esperas) :
                esperas[i] = cfg.initial_delay * Pot(cfg.backoff, i - 1)
           /\ resultado = [tipo |-> "raise", valor |-> cfg.max_retries]

C10_Witness ==
    /\ rpc = "raised"
    /\ SempreFalha
    /\ cfg.max_retries = MaxRetries
    /\ cfg.backoff = 2
    /\ Len(esperas) = MaxRetries - 1

\* C11: a failure classified as non-transient is not retried: the operation
\* is called exactly once and no wait happens before the failure is raised.
C11_NaoTransitoriaFalhaRapido ==
    (NaoTransitoria(classe) /\ lastException # 0)
        => /\ chamadas = 1
           /\ esperas = <<>>

PrimeiroSucesso == sucessoEm >= 1 /\ sucessoEm <= cfg.max_retries

\* C40: with N >= 1 attempts and an operation that first succeeds on its
\* k-th call (k <= N), the operation is called exactly k times, exactly k - 1
\* waits happen and the value of the k-th call is returned as it is; no call
\* and no wait follows the success.
C40_SucessoNaKesima ==
    (cfg.max_retries >= 1 /\ PrimeiroSucesso)
        => /\ chamadas <= sucessoEm
           /\ Len(esperas) <= sucessoEm - 1
           /\ rpc # "raised"
           /\ rpc = "returned"
                  => /\ chamadas = sucessoEm
                     /\ Len(esperas) = sucessoEm - 1
                     /\ resultado = [tipo |-> "return", valor |-> sucessoEm]
           /\ chamadas = sucessoEm => rpc = "returned"

C40_Witness ==
    /\ rpc = "returned"
    /\ sucessoEm = MaxRetries
    /\ cfg.max_retries = MaxRetries
    /\ Len(esperas) = MaxRetries - 1
    /\ resultado.valor = MaxRetries


----------------------------------------------------------------------------
(* Properties of the cache and the processors (SpecCache, SpecProcessador) *)

C13_FalhaDoCacheNaoLevanta ==
    ultima.feita =>
        /\ ~ultima.levantou
        /\ ~ultima.leu => (~ultima.acerto /\ ~ultima.proc.res.fonte_cache)
        /\ ~ultima.gravou =>
              /\ ultima.proc.res.status = "sucesso"
              /\ Guardado(cacheDir, ultima.chave) = ultima.guardado

C13_Witness ==
    /\ ultima.feita
    /\ ~ultima.leu
    /\ ~ultima.gravou
    /\ ultima.proc.res.status = "sucesso"
    /\ ultima.proc.llm = 1

\* The call before the last one was for the same fingerprint and ended in
\* an error.
FalhouNaPassagemAnterior == ultima.feita /\ ultima.falhouAntes

SoSucessos == \A x \in cacheDir : x.valor.status = "sucesso"

\* C29 as stated: every entry of the cache holds a success, and a document
\* whose processing failed is processed again on the next pass, never
\* served from the cache.
C29_FalhouEntaoReprocessa ==
    /\ SoSucessos
    /\ FalhouNaPassagemAnterior => ~ultima.acerto

\* C29: every entry of the cache holds a success; a call changes the entry
\* of its fingerprint only when it processed the document with success,
\* a call that ends in an error leaves the cache as it was, and what a hit
\* serves is a success.  So a document that failed with no success stored
\* under its fingerprint is processed again on the next pass; a success
\* that an earlier pass stored under the same fingerprint is still served.
C29_CacheSoGuardaSucesso ==
    /\ SoSucessos
    /\ ultima.feita =>
          /\ Guardado(cacheDir, ultima.chave) # ultima.guardado
                 => /\ ultima.proc.res.status = "sucesso"
                    /\ ~ultima.acerto
                    /\ Guardado(cacheDir, ultima.chave) = ultima.proc.res
          /\ ultima.proc.res.status = "erro" => ~ultima.acerto
          /\ ultima.acerto => ultima.guardado.status = "sucesso"
          /\ (FalhouNaPassagemAnterior /\ ultima.guardado = Ausente)
                 => /\ ~ultima.acerto
                    /\ ~ultima.proc.res.fonte_cache

C29_Witness ==
    /\ FalhouNaPassagemAnterior
    /\ ultima.guardado = Ausente
    /\ ultima.proc.llm = 1
    /\ ultima.proc.res.status = "sucesso"
    /\ Guardado(cacheDir, ultima.chave) = ultima.proc.res

\* The safe character budget of the model and the length of the truncation
\* marker (the code appends none).
Orcamento == CHARS_PER_TOKEN * LimiteSeguro
MARCADOR == <<>>

\* C14: for every kind, a document with more characters than the budget
\* reaches the summarization service with at most budget + marker
\* characters.
C14_TextoEnviadoLimitado ==
    (saida.feita /\ saida.proc.llm = 1 /\ entrada.e.tamanho > Orcamento)
        => saida.proc.enviado <= Orcamento + Len(MARCADOR)

\* The document was loaded with enough content, so that the summarization
\* service was asked.
Resumivel ==
    /\ saida.feita
    /\ entrada.e.carga = "ok"
    /\ entrada.e.tamanho >= MIN_CONTEUDO

\* C26: for every kind, a summary that comes back empty or shorter than
\* the minimum makes the result an error 'Resumo vazio', which is not a
\* success and does not go to the cache.
C26_ResumoVazioEhErro ==
    (Resumivel /\ ~entrada.e.resposta.levanta
               /\ entrada.e.resposta.len < MIN_RESUMO)
        => /\ saida.proc.res.status = "erro"
           /\ saida.proc.res.erro = "Resumo vazio"
           /\ ~saida.proc.guardar

\* C27: for every kind, a document whose extracted text is shorter than
\* the minimum gets the error of insufficient content of its processor
\* with no call of the summarization service (so nothing is tried again)
\* and nothing handed to the cache.
C27_ConteudoInsuficienteFalhaRapido ==
    (saida.feita /\ entrada.e.carga = "ok"
                 /\ entrada.e.tamanho < MIN_CONTEUDO)
        => /\ saida.proc.res.status = "erro"
           /\ saida.proc.res.erro = MensagemVazio(entrada.tipo)
           /\ saida.proc.llm = 0
           /\ ~saida.proc.guardar

C27_Witness ==
    /\ saida.feita
    /\ entrada.tipo = "demonstracoes"
    /\ entrada.e.carga = "ok"
    /\ entrada.e.tamanho = MIN_CONTEUDO - 1
    /\ saida.proc.res.erro = "PDF vazio"

\* C28: the summarization of a document goes through the retry executor:
\* when the service raises on every call, the error result is recorded
\* only after as many calls as the executor has attempts.
C28_ResumoComRetry ==
    (Resumivel /\ entrada.e.resposta.levanta)
        => /\ saida.proc.res.status = "erro"
           /\ saida.proc.llm = LLM_MAX_RETRIES

----------------------------------------------------------------------------
(* Properties of processar_trimestre_completo (SpecTrimestre) *)

Padroes ==
    {PadraoResultados, PadraoDemonst, PadraoFin, PadraoTranscr,
     PadraoTranscript}

\* The documents of the folder that the listing finds.
Descobertos == {n \in Presentes(pasta) : \E p \in Padroes : Casa(p, n)}

ResultadosDe(n) ==
    {i \in 1..Len(arquivosProcessados) : arquivosProcessados[i].arquivo = n}

Consolidou == tpc \in {"llm", "salvar", "fim"}

\* The consolidation went to the generative service and fell back: every
\* attempt raised, or the answer was too short.
Recuou ==
    /\ tpc \in {"salvar", "fim"}
    /\ Len(resumosSucesso) >= 2
    /\ llmLen <= MIN_CONSOLIDADO

\* C15: the run is never aborted by a document: once the documents are
\* processed every discovered document has its one result, Success or
\* Error, and the consolidator is given exactly the summaries of the
\* Success results (three documents of which one is empty give two Success
\* and one Error).
C15_UmResultadoPorDocumento ==
    Consolidou =>
        /\ \A n \in Descobertos : Cardinality(ResultadosDe(n)) = 1
        /\ Len(arquivosProcessados) = Cardinality(Descobertos)
        /\ resumosSucesso = ResumosDe(arquivosProcessados)

\* C17: with exactly one successful summary the executive summary is that
\* summary under the header of the quarter, and the generative service is
\* not called.
C17_UmResumoSemLLM ==
    (tpc \in {"salvar", "fim"} /\ Len(resumosSucesso) = 1)
        => /\ resumoExecutivo =
                 <<Cabecalho("RESUMO", TrimestreDaPasta),
                   Corpo(resumosSucesso[1])>>
           /\ llmTentativas = 0

C17_Witness ==
    /\ tpc = "fim"
    /\ Len(resumosSucesso) = 1
    /\ Len(arquivosProcessados) >= 2
    /\ persistido # Nulo
    /\ persistido[1].resumo_executivo[2].resumo.id = ResumoR2.id

Sucessos == SelectSeq(arquivosProcessados, EhSucesso)

\* C19: in the deterministic concatenation the header over each summary
\* names the kind of the document the summary came from: the header of the
\* release stands over a release only, that of the call over a transcript
\* only.
C19_RotuloNomeiaOTipo ==
    Recuou =>
        \A i \in 1..Len(resumosSucesso) :
            LET rotulo == resumoExecutivo[2 * i].rotulo
            IN  /\ rotulo = "RELEASE DE RESULTADOS"
                     => Sucessos[i].tipo = "release_resultados"
                /\ rotulo = "CALL/TRANSCRICAO"
                     => Sucessos[i].tipo = "transcricao"

\* C24: within one run no file of the folder gives two results: once the
\* documents are processed each discovered file has exactly one entry in
\* arquivos_processados, also a file whose name matches two patterns.
C24_UmResultadoPorArquivo ==
    Consolidou => \A n \in Descobertos : Cardinality(ResultadosDe(n)) = 1

\* The kinds in the order of their priority, with the patterns of each.
Prioridade == <<"release", "demonstracoes", "transcricao">>
PadroesDoTipo(tipo) ==
    CASE tipo = "release" -> {PadraoResultados}
      [] tipo = "demonstracoes" -> {PadraoDemonst, PadraoFin}
      [] tipo = "transcricao" -> {PadraoTranscr, PadraoTranscript}

TiposQueCasam(n) ==
    {i \in 1..Len(Prioridade) :
        \E p \in PadroesDoTipo(Prioridade[i]) : Casa(p, n)}

\* The earliest kind whose tokens the name matches.
PrimeiroTipo(n) ==
    Prioridade[CHOOSE i \in TiposQueCasam(n) :
                 \A j \in TiposQueCasam(n) : i <= j]

\* The kind a result was processed as (an error carries the name of the
\* processor, a success the 'tipo' of the record).
TipoProcessado(r) ==
    CHOOSE t \in TiposCache : r.tipo \in {t, TipoResultado(t)}

\* C25: every discovered file is processed as one kind only, the earliest
\* in the order release, statements, transcript of those whose tokens its
\* name matches.
C25_SoOTipoDeMaiorPrioridade ==
    Consolidou =>
        \A n \in Descobertos :
            {TipoProcessado(arquivosProcessados[i]) : i \in ResultadosDe(n)}
                = {PrimeiroTipo(n)}

----------------------------------------------------------------------------
(* Properties of the download loop (SpecBaixar) *)

\* The page and the server gave a file of this kind: the link was there,
\* the GET answered and the body was written.
Respondeu(t) ==
    t.pagina.link = "ok" /\ t.pagina.get = "ok" /\ t.pagina.grava

BaixouTentativa(t) == t.baixou

\* C21: a download whose body has zero bytes is not accepted, and it is
\* tried again before the link is reported as failed: more than one GET of
\* the link has been made.
C21_DownloadVazioRepetido ==
    \A i \in 1..Len(tentativas) :
        (Respondeu(tentativas[i]) /\ tentativas[i].pagina.corpo = 0)
            => /\ ~tentativas[i].baixou
               /\ tentativas[i].pedidos > 1

\* C22: when the loop is over every kind has been served, in order,
\* whatever happened to the kinds before it, and arquivos_baixados holds
\* exactly the kinds whose download was written with content, each with
\* its file not empty in pasta_destino.
C22_BaixaOsQuePode ==
    dpc = "fim" =>
        /\ Len(tentativas) = Len(TiposArquivo)
        /\ \A i \in 1..Len(tentativas) :
             /\ tentativas[i].tipo = TiposArquivo[i]
             /\ tentativas[i].baixou
                    <=> (Respondeu(tentativas[i])
                            /\ tentativas[i].pagina.corpo > 0)
        /\ LET ok == SelectSeq(tentativas, BaixouTentativa)
           IN  arquivosBaixados = [i \in 1..Len(ok) |-> ok[i].tipo]
        /\ \A i \in 1..Len(arquivosBaixados) :
             TamanhoEm(destino, arquivosBaixados[i]) > 0

C22_Witness ==
    /\ dpc = "fim"
    /\ tentativas[1].pagina.link = "raise"
    /\ Respondeu(tentativas[2])
    /\ tentativas[2].pagina.corpo = 0
    /\ arquivosBaixados = <<"transcricao">>

\* C37: every file the processors are called on was downloaded with content
\* by this same call of baixar_e_salvar_pdf: a file left in pasta_destino by
\* a download that failed or had zero bytes, or by an earlier cycle, is not
\* in the queue and gets no result.
C37_SoProcessaOsBaixados ==
    dpc = "processado" =>
        \A i \in 1..Len(fila) :
            \E j \in 1..Len(arquivosBaixados) :
                fila[i].nome = NomeDoTipo(arquivosBaixados[j])

----------------------------------------------------------------------------
(* Properties of the start of the system (SpecArranque) *)

\* C23: with a credential that is not set (absent or empty) or a required
\* file that does not exist, run goes from its start to its abort and
\* nowhere else: no bot process is ever created and the monitoring thread
\* is never started.
C23_SemCredencialNaoArranca ==
    (Faltando(ambiente) # {} \/ ~(Requeridos \subseteq ficheiros))
        => /\ spc \in {"inicio", "abortado"}
           /\ botProcess = "None"
           /\ botInicios = 0
           /\ ~monitoringThread

C23_Witness ==
    /\ spc = "abortado"
    /\ ambiente["OPENAI_API_KEY"] = "definida"
    /\ ambiente["TOKEN"] = "vazia"
    /\ ficheiros = Requeridos

\* C39: at most one bot child process is alive at any time, whatever
\* start_bot, its retry attempts and restart_bot do: Popen is called only
\* when no process created before is still alive.
C39_UmBotVivo ==
    [][/\ botsVivos' <= 1
       /\ botInicios' # botInicios => botsVivos = 0]_vars

C39_Witness ==
    /\ spc = "operacional"
    /\ botInicios = BOT_MAX_RETRIES + 2
    /\ botProcess = "rodando"
    /\ botsVivos = 1

\* C33: the stop is cooperative.  Once stop has set self.running to false
\* the monitoring worker starts no new cycle and the fan-out starts no
\* further subscriber, and a cycle that is running ends only by running to
\* its end.
C33_ParadaCooperativa ==
    [][/\ (worker # "ciclo" /\ worker' = "ciclo") => running
       /\ (Enviar /\ passo = 0) => running
       /\ worker = "ciclo" => worker' \in {"ciclo", "espera"}]_vars

----------------------------------------------------------------------------
(* Properties of write_json and read_json (SpecEscrita) *)

\* C34: a write of a persisted record is crash-atomic.  When the process
\* ended inside the write, a later read of the file gives the complete old
\* value or the complete new value, never the default put in place of a
\* text that does not parse.
C34_EscritaAtomica ==
    (leitura.feita /\ escritor.pc = "interrompido")
        => leitura.valor \in {escritor.antigo, escritor.novo}

====
